---- MODULE Spec2Model ----
(***************************************************************************)
(* A model of the arigato 9P2000.u server: the per-connection handshake,   *)
(* the Ready loop of connection_handler, the request dispatch of           *)
(* message_handler, the fid and tag tables of state.rs, the framed         *)
(* reader/writer of aio.rs and Version negotiation.                        *)
(*                                                                         *)
(* A connection is one cooperatively scheduled task.  Its steps are        *)
(*   - one iteration of the handshake loop (read a frame, answer it),      *)
(*   - Recv: the Ready loop reads a frame and inserts its tag,             *)
(*   - Dispatch*: message_handler runs for the frame just read, the tag    *)
(*     is removed and the reply is sent (or discarded).                    *)
(* The environment is a 9P client: it puts frames on the inbound byte      *)
(* stream (inq), takes replies off the outbound stream (out) and may break *)
(* the transport.  The back-end filesystem is nondeterministic: every      *)
(* capability call may return any value of its result type.                *)
(***************************************************************************)
EXTENDS Integers, Sequences, FiniteSets, TLC

VARIABLES
    server_msize,   \* AsyncServer.msize (AsyncServerBuilder::with_msize)
    fs_lock,        \* the mutex of AsyncServer.filesystems: the connection that holds its guard
    st,             \* per connection: "Handshaking" | "Ready" | "Closed"
    cur,            \* per connection: the T read by the Ready loop and not yet dispatched
    rmsize,         \* per connection: TReader.1, the reader's msize
    wmsize,         \* per connection: RWriter.1, the writer's msize
    msize,          \* per connection: ConnectionParams.msize / Context.msize
    version,        \* per connection: ConnectionParams.version / Context.version
    handles,        \* per connection: FileHandles.handles, Fid -> FileHandle
    requests,       \* per connection: Requests.requests, Tag -> T
    inq,            \* per connection: frames sent by the client, not yet read
    out,            \* per connection: frames written by the server, not yet taken by the client
    transport,      \* per connection: "up" | "eof" (reads fail) | "shut" (writes fail) |
                    \*   "down" (reads and writes fail)
    calls,          \* per connection: capability calls made for the request last read, with results
    dropped,        \* per connection: the handshake loop has dropped a message (its warning)
    unsent,         \* per connection: the reply whose send failed and ended the task
    trial           \* the last call of a table or Version operation made directly, and its result

vars == <<server_msize, fs_lock, st, cur, rmsize, wmsize, msize, version, handles,
          requests, inq, out, transport, calls, dropped, unsent, trial>>

---------------------------------------------------------------------------
(* Bounds and input domains *)

MaxTag == 2
MaxFid == 1

Tags == 1..MaxTag
Fids == 0..MaxFid

AllConns == {1, 2}
Conns == {1}

ServerMsizes == {24, 8192}
ClientMsizes == {20, 8192}
\* The TVersion requests of the client: (msize, version string); a version
\* string is the sequence of its segments between dots.
ClientOffers ==
    { <<m, <<"9P2000", "u">> >> : m \in ClientMsizes }
        \cup { <<8192, <<"9P2000">> >>, <<8192, <<"9P2000", "L">> >>,
               <<8192, <<"9P2001", "u">> >> }

Files == {"root", "zero"}
Sessions == { [uname |-> "u", aname |-> ""], [uname |-> "v", aname |-> ""],
              [uname |-> "u", aname |-> "nofs"] }
Filesystems == {""}
\* The (uname, aname) a client puts in its TAttach: a registered and an
\* unregistered filesystem name.
Attaches == { x \in Sessions : x.uname = "u" }
FileErrors == { [errno |-> 5, desc |-> "EIO"] }
WalkPaths == { <<>>, <<"zero">> }
WalkLists == { <<>>, <<"root">>, <<"root", "zero">> }
Modes == {0}
Iounits == {0}
\* The open files File::open hands out.
OpenFiles == {"open zero"}
\* The file File::create hands out.
CreatedFiles == {"zero"}
\* The size field of a TRead, the bytes of a TWrite, and the byte counts
\* read_at and write_at report.
ReadSizes == {1, 14}
WriteBufs == { <<0>> }
IoCounts == {1}
\* The byte counts read_at reports: one byte, and a whole buffer of 14.
ReadCounts == {1, 14}
\* The file whose Stat a TWStat carries.
WStatFiles == {"zero"}

\* 0xFFFFFFFF, the errno of a reply that carries no POSIX errno.  TLC integers
\* are 32-bit signed: the u32 all-ones value is written as its signed reading.
NOERRNO == -1
\* 0xFFFFFFFF as a fid: "no afid".
NOFID == -1

---------------------------------------------------------------------------
(* Option values: None is <<>>, Some(x) is <<x>> *)

None == <<>>
Some(x) == <<x>>
IsSome(o) == o # <<>>
Unwrap(o) == o[1]

EmptyMap == <<>>
Put(m, k, v) == [x \in DOMAIN m \cup {k} |-> IF x = k THEN v ELSE m[x]]
Del(m, k) == [x \in DOMAIN m \ {k} |-> m[x]]

Min(a, b) == IF a < b THEN a ELSE b

---------------------------------------------------------------------------
(* raw/protocol.rs: FileType.  A u32 is kept as its top byte and its low   *)
(* 24 bits, [hi, lo], its value being hi * 2^24 + lo.                      *)

U32(hi, lo) == [hi |-> hi, lo |-> lo]

\* enum FileType: the ten named variants and Unknown(u8).
FT(name) == [variant |-> name, byte |-> 0]
Unknown(b) == [variant |-> "Unknown", byte |-> b]
SpecialTypes == { FT("Device"), FT("NamedPipe"), FT("Socket") }
PlainTypes ==
    { FT("File"), FT("Dir"), FT("Append"), FT("Excl"), FT("Auth"), FT("Tmp"), FT("Link") }

\* impl From<u8> for FileType
FileType_from_u8(v) ==
    CASE v = \h80 -> FT("Dir")
      [] v = \h40 -> FT("Append")
      [] v = \h20 -> FT("Excl")
      [] v = \h08 -> FT("Auth")
      [] v = \h04 -> FT("Tmp")
      [] v = \h02 -> FT("Link")
      [] v = \h00 -> FT("File")
      [] OTHER -> Unknown(v)

\* impl From<FileType> for u8
FileType_into_u8(qt) ==
    CASE qt = FT("Dir") -> \h80
      [] qt = FT("Append") -> \h40
      [] qt = FT("Excl") -> \h20
      [] qt = FT("Auth") -> \h08
      [] qt = FT("Tmp") -> \h04
      [] qt = FT("Link") -> \h02
      [] qt = FT("File") -> \h00
      [] qt.variant = "Unknown" -> qt.byte
      [] OTHER -> \h00

\* impl From<FileType> for u32: the u8 shifted to the top byte, or'ed with
\* the bit of a special type.
FileType_into_u32(qt) ==
    U32(FileType_into_u8(qt),
        CASE qt = FT("Device") -> \h800000
          [] qt = FT("NamedPipe") -> \h200000
          [] qt = FT("Socket") -> \h100000
          [] OTHER -> 0)

\* A faulty variant of FileType_from_u32: the permission bits are not dropped.
FileType_from_u32_mut(w) ==
    CASE w = U32(0, \h800000) -> FT("Device")
      [] w = U32(0, \h200000) -> FT("NamedPipe")
      [] w = U32(0, \h100000) -> FT("Socket")
      [] OTHER -> FileType_from_u8(w.hi)

\* impl From<u32> for FileType: v & 0xfffffe00, the three special patterns,
\* otherwise the top byte.
FileType_from_u32(w) ==
    LET v == U32(w.hi, w.lo - (w.lo % \h200)) IN
    CASE v = U32(0, \h800000) -> FT("Device")
      [] v = U32(0, \h200000) -> FT("NamedPipe")
      [] v = U32(0, \h100000) -> FT("Socket")
      [] OTHER -> FileType_from_u8(v.hi)

\* Bitwise and / or of two naturals.
RECURSIVE BitAnd(_, _)
BitAnd(a, b) ==
    IF a = 0 \/ b = 0 THEN 0
    ELSE (IF a % 2 = 1 /\ b % 2 = 1 THEN 1 ELSE 0) + 2 * BitAnd(a \div 2, b \div 2)

RECURSIVE BitOr(_, _)
BitOr(a, b) ==
    IF a = 0 THEN b
    ELSE IF b = 0 THEN a
    ELSE (IF a % 2 = 1 \/ b % 2 = 1 THEN 1 ELSE 0) + 2 * BitOr(a \div 2, b \div 2)

U32_and(v, w) == U32(BitAnd(v.hi, w.hi), BitAnd(v.lo, w.lo))
U32_or(v, w) == U32(BitOr(v.hi, w.hi), BitOr(v.lo, w.lo))

---------------------------------------------------------------------------
(* raw/numbers.rs, raw/protocol.rs, raw/messages_r.rs: the wire codec *)

\* to_le_bytes / from_le_bytes of an unsigned integer of k bytes.
RECURSIVE to_le_bytes(_, _)
to_le_bytes(n, k) == IF k = 0 THEN <<>> ELSE <<n % 256>> \o to_le_bytes(n \div 256, k - 1)

RECURSIVE from_le_bytes(_)
from_le_bytes(bs) == IF bs = <<>> THEN 0 ELSE Head(bs) + 256 * from_le_bytes(Tail(bs))

\* Qid::new
Qid_new(ty, qversion, path) == [ty |-> ty, version |-> qversion, path |-> path]

\* Dehydrate for Qid: the type as its u8, the version (u32), the path (u64).
Qid_dehydrate(q) ==
    <<FileType_into_u8(q.ty)>> \o to_le_bytes(q.version, 4) \o to_le_bytes(q.path, 8)

\* A faulty variant of Qid_hydrate: the version is read as two bytes.
Qid_hydrate_mut(bs) ==
    Qid_new(FileType_from_u8(bs[1]), from_le_bytes(SubSeq(bs, 2, 3)),
            from_le_bytes(SubSeq(bs, 6, 13)))

\* Hydrate for Qid
Qid_hydrate(bs) ==
    Qid_new(FileType_from_u8(bs[1]), from_le_bytes(SubSeq(bs, 2, 5)),
            from_le_bytes(SubSeq(bs, 6, 13)))

TYPE_RATTACH == 105

\* Dehydrate for R, Self::Attach(tag, qid): type, tag, qid.
RAttach_dehydrate(r) == <<TYPE_RATTACH>> \o to_le_bytes(r.tag, 2) \o Qid_dehydrate(r.qid)

\* Hydrate for R, TYPE_RATTACH arm.
RAttach_hydrate(bs) ==
    [op |-> "RAttach", tag |-> from_le_bytes(SubSeq(bs, 2, 3)),
     qid |-> Qid_hydrate(SubSeq(bs, 4, 16))]

---------------------------------------------------------------------------
(* raw/stat.rs: StatBuilder *)

\* A faulty variant of StatBuilder_build: the given mode keeps its top byte.
StatBuilder_build_mut(name, qid, mode) ==
    [name |-> name, qid |-> qid, mode |-> U32_or(mode, FileType_into_u32(qid.ty))]

\* Stat::builder(name, qid).with_mode(mode).build():
\* mode & 0x00FFFFFF | qid_mode
StatBuilder_build(name, qid, mode) ==
    [name |-> name, qid |-> qid,
     mode |-> U32_or(U32_and(mode, U32(\h00, \hFFFFFF)), FileType_into_u32(qid.ty))]

---------------------------------------------------------------------------
(* raw/version.rs *)

RECURSIVE Join(_)
Join(segs) ==
    IF Len(segs) = 1 THEN segs[1] ELSE segs[1] \o "." \o Join(Tail(segs))

\* A wire string is a sequence of the segments between its dots.
FromStr(segs) ==
    IF Len(segs) = 1
    THEN [id |-> segs[1], variant |-> None]
    ELSE [id |-> segs[1], variant |-> Some(Join(Tail(segs)))]

Display(v) ==
    IF IsSome(v.variant) THEN v.id \o "." \o Unwrap(v.variant) ELSE v.id

\* A faulty variant of try_negotiate: a server without a variant adopts the
\* variant the peer asks for.
try_negotiate_mut(self, other) ==
    IF self.id # other.id
    THEN [ok |-> FALSE, err |-> "MismatchedId", version |-> self]
    ELSE IF self.variant = other.variant \/ self.variant = None
         THEN [ok |-> TRUE, err |-> "", version |-> other]
         ELSE [ok |-> FALSE, err |-> "MismatchedVariant", version |-> self]

\* A faulty variant of try_negotiate: a peer that asks for the bare id is
\* negotiated down to it.
try_negotiate_down(self, other) ==
    IF self.id # other.id
    THEN [ok |-> FALSE, err |-> "MismatchedId", version |-> self]
    ELSE IF self.variant = other.variant \/ self.variant = None
         THEN [ok |-> TRUE, err |-> "", version |-> self]
         ELSE IF other.variant = None
              THEN [ok |-> TRUE, err |-> "", version |-> other]
              ELSE [ok |-> FALSE, err |-> "MismatchedVariant", version |-> self]

try_negotiate(self, other) ==
    IF self.id # other.id
    THEN [ok |-> FALSE, err |-> "MismatchedId", version |-> self]
    ELSE IF self.variant = other.variant \/ self.variant = None
         THEN [ok |-> TRUE, err |-> "", version |-> self]
         ELSE [ok |-> FALSE, err |-> "MismatchedVariant", version |-> self]

ServerVersion == FromStr(<<"9P2000", "u">>)

---------------------------------------------------------------------------
(* server/state.rs *)

\* A faulty variant of FileHandles::insert: a live fid is bound again.
FileHandles_insert_mut(h, fid, session, file) ==
    [ok |-> TRUE, err |-> "",
     handles |-> Put(h, fid, [session |-> session, file |-> file, of |-> None])]

FileHandles_insert(h, fid, session, file) ==
    IF fid \in DOMAIN h
    THEN [ok |-> FALSE, err |-> "FidAlreadyExists", handles |-> h]
    ELSE [ok |-> TRUE, err |-> "",
          handles |-> Put(h, fid, [session |-> session, file |-> file, of |-> None])]

FileHandles_remove(h, fid) ==
    IF fid \in DOMAIN h
    THEN [ok |-> TRUE, err |-> "", handle |-> Some(h[fid]), handles |-> Del(h, fid)]
    ELSE [ok |-> FALSE, err |-> "NoSuchFid", handle |-> None, handles |-> h]

FileHandles_get(h, fid) ==
    IF fid \in DOMAIN h
    THEN [ok |-> TRUE, err |-> "", handle |-> Some(h[fid])]
    ELSE [ok |-> FALSE, err |-> "NoSuchFid", handle |-> None]

FileHandles_get_mut(h, fid) ==
    IF fid \in DOMAIN h
    THEN [ok |-> TRUE, err |-> "", handle |-> Some(h[fid])]
    ELSE [ok |-> FALSE, err |-> "NoSuchFid", handle |-> None]

\* A faulty variant of Requests::insert: a live tag is overwritten.
Requests_insert_mut(q, tag, t) ==
    [ok |-> TRUE, err |-> "", requests |-> Put(q, tag, t)]

Requests_insert(q, tag, t) ==
    IF tag \in DOMAIN q
    THEN [ok |-> FALSE, err |-> "TagAlreadyExists", requests |-> q]
    ELSE [ok |-> TRUE, err |-> "", requests |-> Put(q, tag, t)]

\* A faulty variant of Requests::remove: the entry is reported and kept.
Requests_remove_keep(q, tag) ==
    IF tag \in DOMAIN q
    THEN [ok |-> TRUE, err |-> "", request |-> Some(q[tag]), requests |-> q]
    ELSE [ok |-> FALSE, err |-> "NoSuchTag", request |-> None, requests |-> q]

\* A faulty variant of Requests::remove: a missing tag is not an error.
Requests_remove_mut(q, tag) ==
    [ok |-> TRUE, err |-> "",
     request |-> IF tag \in DOMAIN q THEN Some(q[tag]) ELSE None,
     requests |-> Del(q, tag)]

Requests_remove(q, tag) ==
    IF tag \in DOMAIN q
    THEN [ok |-> TRUE, err |-> "", request |-> Some(q[tag]), requests |-> Del(q, tag)]
    ELSE [ok |-> FALSE, err |-> "NoSuchTag", request |-> None, requests |-> q]

---------------------------------------------------------------------------
(* raw/messages_t.rs, raw/messages_r.rs: the messages and their frame sizes *)

R_Version(tag, m, v) == [op |-> "RVersion", tag |-> tag, msize |-> m, version |-> v]
R_Error(tag, ename, errno) == [op |-> "RError", tag |-> tag, ename |-> ename, errno |-> errno]
R_Flush(tag) == [op |-> "RFlush", tag |-> tag]
R_Clunk(tag) == [op |-> "RClunk", tag |-> tag]
R_Attach(tag, qid) == [op |-> "RAttach", tag |-> tag, qid |-> qid]
R_Walk(tag, qids) == [op |-> "RWalk", tag |-> tag, qids |-> qids]
R_Open(tag, qid, iounit) == [op |-> "ROpen", tag |-> tag, qid |-> qid, iounit |-> iounit]
R_Remove(tag) == [op |-> "RRemove", tag |-> tag]
R_Stat(tag, stat) == [op |-> "RStat", tag |-> tag, stat |-> stat]
R_Create(tag, qid, iounit) == [op |-> "RCreate", tag |-> tag, qid |-> qid, iounit |-> iounit]
R_Read(tag, buf) == [op |-> "RRead", tag |-> tag, data |-> buf]
R_Write(tag, n) == [op |-> "RWrite", tag |-> tag, count |-> n]
R_WStat(tag) == [op |-> "RWStat", tag |-> tag]

\* File::qid of the back-end's files (examples/p9null: the directory and `zero`).
Qid(file) ==
    IF file = "root"
    THEN [ty |-> "Dir", version |-> 0, path |-> 1]
    ELSE [ty |-> "File", version |-> 0, path |-> 2]

Qids(files) == [i \in DOMAIN files |-> Qid(files[i])]

\* The Stat a back-end builds for a file: Stat::builder(name, qid).build().
StatOf(file) == [name |-> file, qid |-> Qid(file)]

RECURSIVE SumStrSize(_)
SumStrSize(ss) == IF ss = <<>> THEN 0 ELSE (2 + Len(Head(ss))) + SumStrSize(Tail(ss))

\* Stat::dehydrate: body_len[2], then ty[2] dev[4] qid[13] mode[4] atime[4]
\* mtime[4] length[8], five strings, nuid[4] ngid[4] nmuid[4].
StatSize(stat) == 2 + (39 + (2 + Len(stat.name)) + 4 * 2 + 12)

\* Bytes of a string on the wire: u16 length, then the bytes.
StrSize(s) == 2 + Len(s)

\* size[4] type[1] tag[2], then the payload.
RSize(r) ==
    7 + CASE r.op = "RVersion" -> 4 + StrSize(Display(r.version))
          [] r.op = "RError"   -> StrSize(r.ename) + 4
          [] r.op = "RFlush"   -> 0
          [] r.op = "RClunk"   -> 0
          [] r.op = "RAttach"  -> 13
          [] r.op = "RWalk"    -> 2 + 13 * Len(r.qids)
          [] r.op = "ROpen"    -> 13 + 4
          [] r.op = "RRemove"  -> 0
          [] r.op = "RStat"    -> 2 + StatSize(r.stat)
          [] r.op = "RCreate"  -> 13 + 4
          [] r.op = "RRead"    -> 4 + Len(r.data)
          [] r.op = "RWrite"   -> 4
          [] r.op = "RWStat"   -> 0

\* A string field whose bytes are not UTF-8: it stands for the one byte 0xFF.
NotUtf8 == "~"

\* String::hydrate succeeds: std::str::from_utf8 accepts the bytes.
from_utf8(s) == s # NotUtf8

\* T::hydrate returns Ok: every string field of the frame decodes.
Hydrates(f) == f.op = "Attach" => from_utf8(f.uname)

\* T::hydrate: the version string of a TVersion is parsed, every other
\* field is taken as it is.
T_hydrate(f) ==
    IF f.op = "Version" THEN [f EXCEPT !.version = FromStr(f.version)] ELSE f

TSize(f) ==
    7 + CASE f.op = "Version" -> 4 + StrSize(Join(f.version))
          [] f.op = "Auth"    -> 4 + StrSize(f.uname) + StrSize(f.aname) + 4
          [] f.op = "Flush"   -> 2
          [] f.op = "Clunk"   -> 4
          [] f.op = "Unknown" -> 0
          [] f.op = "Attach"  -> 4 + 4 + (2 + Len(f.uname)) + (2 + Len(f.aname)) + 4
          [] f.op = "Walk"    -> 4 + 4 + 2 + SumStrSize(f.wnames)
          [] f.op = "Open"    -> 4 + 1
          [] f.op = "Remove"  -> 4
          [] f.op = "Stat"    -> 4
          [] f.op = "Create"  -> 4 + StrSize(f.name) + 4 + 1 + StrSize(f.extension)
          [] f.op = "Read"    -> 4 + 8 + 4
          [] f.op = "Write"   -> 4 + 8 + 4 + Len(f.data)
          [] f.op = "WStat"   -> 4 + 2 + StatSize(f.stat)

TVersionFrames ==
    { [op |-> "Version", tag |-> g, msize |-> o[1], version |-> o[2]] :
        g \in Tags, o \in ClientOffers }
TAuthFrames ==
    { [op |-> "Auth", tag |-> g, afid |-> 0, uname |-> "u", aname |-> "", nuname |-> 0] :
        g \in Tags }
TFlushFrames == { [op |-> "Flush", tag |-> g, oldtag |-> o] : g \in Tags, o \in Tags }
TClunkFrames == { [op |-> "Clunk", tag |-> g, fid |-> f] : g \in Tags, f \in Fids }
TUnknownFrames == { [op |-> "Unknown", tag |-> g, ty |-> 255] : g \in Tags }

TAttachFrames ==
    { [op |-> "Attach", tag |-> g, fid |-> f, afid |-> NOFID, uname |-> s.uname,
       aname |-> s.aname, nuname |-> 0] : g \in Tags, f \in Fids, s \in Attaches }
\* A TAttach whose uname is not UTF-8.
TGarbledFrames ==
    { [op |-> "Attach", tag |-> g, fid |-> 0, afid |-> NOFID, uname |-> NotUtf8,
       aname |-> "", nuname |-> 0] : g \in Tags }
TWalkFrames ==
    { [op |-> "Walk", tag |-> g, fid |-> f, newfid |-> n, wnames |-> w] :
        g \in Tags, f \in Fids, n \in Fids, w \in WalkPaths }
TOpenFrames ==
    { [op |-> "Open", tag |-> g, fid |-> f, mode |-> m] : g \in Tags, f \in Fids, m \in Modes }
TRemoveFrames == { [op |-> "Remove", tag |-> g, fid |-> f] : g \in Tags, f \in Fids }
TStatFrames == { [op |-> "Stat", tag |-> g, fid |-> f] : g \in Tags, f \in Fids }
\* The perm of a TCreate: DMDIR with 0o1755, and DMDEVICE with 0o644.
CreatePerms == { U32(\h80, \o1755), U32(0, \h800000 + \o644) }
TCreateFrames ==
    { [op |-> "Create", tag |-> g, fid |-> f, name |-> "new", perm |-> p, mode |-> m,
       extension |-> ""] : g \in Tags, f \in Fids, m \in Modes, p \in CreatePerms }
TReadFrames ==
    { [op |-> "Read", tag |-> g, fid |-> f, offset |-> 0, size |-> n] :
        g \in Tags, f \in Fids, n \in ReadSizes }
TWriteFrames ==
    { [op |-> "Write", tag |-> g, fid |-> f, offset |-> 0, data |-> d] :
        g \in Tags, f \in Fids, d \in WriteBufs }
TWStatFrames ==
    { [op |-> "WStat", tag |-> g, fid |-> f, stat |-> StatOf(x)] :
        g \in Tags, f \in Fids, x \in WStatFiles }

TFrames ==
    TVersionFrames \cup TAuthFrames \cup TFlushFrames \cup TClunkFrames
        \cup TUnknownFrames \cup TAttachFrames \cup TWalkFrames \cup TOpenFrames
        \cup TRemoveFrames \cup TStatFrames \cup TCreateFrames \cup TReadFrames
        \cup TWriteFrames \cup TWStatFrames \cup TGarbledFrames

---------------------------------------------------------------------------
(* server/mod.rs: ServerError, and its mapping to a reply in connection_handler *)

Err_FileError(fe) == [kind |-> "FileError", errno |-> fe.errno, desc |-> fe.desc]
Err_NoSuchFilesystem == [kind |-> "NoSuchFilesystem", errno |-> 0, desc |-> "NoSuchFilesystem"]
Err_FileHandlesError(e) ==
    [kind |-> "FileHandlesError", errno |-> 0, desc |-> "FileHandlesError(" \o e \o ")"]

\* A faulty variant of ErrorReply: the errno of a FileError is not passed on.
ErrorReply_mut(tag, err) == R_Error(tag, err.desc, NOERRNO)

\* connection_handler: Err(err) => FileError(errno, desc) -> R::Error(tag, desc, errno),
\* anything else -> R::Error(tag, format!("{err:?}"), 0xFFFFFFFF)
ErrorReply(tag, err) ==
    IF err.kind = "FileError"
    THEN R_Error(tag, err.desc, err.errno)
    ELSE R_Error(tag, err.desc, NOERRNO)

---------------------------------------------------------------------------
(* server/aio.rs *)

\* async_reader::next succeeds: the size prefix is read and is at most the
\* reader's msize, then the body is read and T::hydrate decodes it.
CanRead(c) ==
    /\ transport[c] \in {"up", "shut"}
    /\ inq[c] # <<>>
    /\ TSize(Head(inq[c])) <= rmsize[c]
    /\ Hydrates(Head(inq[c]))

\* A faulty variant of CanSend: a frame of exactly msize bytes is refused.
CanSend_mut(c, w, r) ==
    /\ RSize(r) < w
    /\ transport[c] \in {"up", "eof"}

\* async_writer::send with the writer's msize w succeeds.
CanSend(c, w, r) ==
    /\ RSize(r) <= w
    /\ transport[c] \in {"up", "eof"}

---------------------------------------------------------------------------
(* The client and the transport *)

\* The client sends a frame when the server has read everything sent before
\* and the client has taken every reply written so far.  While a request is
\* being dispatched the only frame it sends is a TFlush for that request,
\* under a tag of its own.
ClientSend(c, f) ==
    /\ st[c] \in {"Handshaking", "Ready"}
    /\ transport[c] = "up"
    /\ inq[c] = <<>>
    /\ cur[c] # None =>
          /\ f.op = "Flush"
          /\ f.oldtag = Unwrap(cur[c]).tag
          /\ f.tag # Unwrap(cur[c]).tag
    /\ out[c] = <<>>
    /\ inq' = [inq EXCEPT ![c] = Append(@, f)]
    /\ calls' = [calls EXCEPT ![c] = IF cur[c] = None THEN <<>> ELSE @]
    /\ UNCHANGED <<server_msize, fs_lock, st, cur, rmsize, wmsize, msize, version, handles,
                   requests, out, transport, dropped, unsent, trial>>

\* The client takes the oldest reply off the stream.
ClientRecv(c) ==
    /\ out[c] # <<>>
    /\ out' = [out EXCEPT ![c] = Tail(@)]
    /\ calls' = [calls EXCEPT ![c] = IF cur[c] = None THEN <<>> ELSE @]
    /\ UNCHANGED <<server_msize, fs_lock, st, cur, rmsize, wmsize, msize, version, handles,
                   requests, inq, transport, dropped, unsent, trial>>

\* The transport breaks: from now on every read and every write of the
\* server fails.  The client has nothing in flight at that moment.
Disconnect(c) ==
    /\ st[c] \in {"Handshaking", "Ready"}
    /\ transport[c] = "up"
    /\ inq[c] = <<>>
    /\ out[c] = <<>>
    /\ transport' = [transport EXCEPT ![c] = "down"]
    /\ UNCHANGED <<server_msize, fs_lock, st, cur, rmsize, wmsize, msize, version, handles,
                   requests, inq, out, calls, dropped, unsent, trial>>

\* The client closes its side: from now on every read of the server reports
\* the end of the stream; what the server writes is still taken.
Eof(c) ==
    /\ st[c] \in {"Handshaking", "Ready"}
    /\ transport[c] = "up"
    /\ inq[c] = <<>>
    /\ transport' = [transport EXCEPT ![c] = "eof"]
    /\ UNCHANGED <<server_msize, fs_lock, st, cur, rmsize, wmsize, msize, version, handles,
                   requests, inq, out, calls, dropped, unsent, trial>>

\* The client stops reading: from now on every write of the server fails;
\* what the client has sent is still read.
Shut(c) ==
    /\ st[c] \in {"Handshaking", "Ready"}
    /\ transport[c] = "up"
    /\ out[c] = <<>>
    /\ transport' = [transport EXCEPT ![c] = "shut"]
    /\ UNCHANGED <<server_msize, fs_lock, st, cur, rmsize, wmsize, msize, version, handles,
                   requests, inq, out, calls, dropped, unsent, trial>>

---------------------------------------------------------------------------
(* server/async_server.rs *)

Init ==
    /\ server_msize \in ServerMsizes
    /\ fs_lock = None
    /\ st = [c \in AllConns |-> "Idle"]
    /\ cur = [c \in AllConns |-> None]
    /\ rmsize = [c \in AllConns |-> 0]
    /\ wmsize = [c \in AllConns |-> 0]
    /\ msize = [c \in AllConns |-> 0]
    /\ version = [c \in AllConns |-> ServerVersion]
    /\ handles = [c \in AllConns |-> EmptyMap]
    /\ requests = [c \in AllConns |-> EmptyMap]
    /\ inq = [c \in AllConns |-> <<>>]
    /\ out = [c \in AllConns |-> <<>>]
    /\ transport = [c \in AllConns |-> "up"]
    /\ calls = [c \in AllConns |-> <<>>]
    /\ dropped = [c \in AllConns |-> FALSE]
    /\ unsent = [c \in AllConns |-> None]
    /\ trial = None

\* AsyncServer::serve: a connection is accepted and its task is spawned.
Accept(c) ==
    /\ st[c] = "Idle"
    /\ st' = [st EXCEPT ![c] = "Handshaking"]
    /\ rmsize' = [rmsize EXCEPT ![c] = server_msize]
    /\ wmsize' = [wmsize EXCEPT ![c] = server_msize]
    /\ msize' = [msize EXCEPT ![c] = server_msize]
    /\ version' = [version EXCEPT ![c] = FromStr(<<"9P2000", "u">>)]
    /\ handles' = [handles EXCEPT ![c] = EmptyMap]
    /\ requests' = [requests EXCEPT ![c] = EmptyMap]
    /\ unsent' = [unsent EXCEPT ![c] = None]
    /\ UNCHANGED <<server_msize, fs_lock, cur, inq, out, transport, calls, dropped, trial>>

---------------------------------------------------------------------------
(* server/connection_handler.rs *)

\* A faulty variant of Close: the fid and tag tables are shared by all
\* connections, and the end of one task empties them.
Close_mut(c) ==
    /\ st' = [st EXCEPT ![c] = "Closed"]
    /\ cur' = [cur EXCEPT ![c] = None]
    /\ handles' = [d \in AllConns |-> EmptyMap]
    /\ requests' = [d \in AllConns |-> EmptyMap]
    /\ inq' = [inq EXCEPT ![c] = <<>>]

\* connection_handler returns (with `?` or from handshake): the task ends and
\* drops the Context, the reader and the writer.
Close(c) ==
    /\ st' = [st EXCEPT ![c] = "Closed"]
    /\ cur' = [cur EXCEPT ![c] = None]
    /\ handles' = [handles EXCEPT ![c] = EmptyMap]
    /\ requests' = [requests EXCEPT ![c] = EmptyMap]
    /\ inq' = [inq EXCEPT ![c] = <<>>]

\* A faulty variant of ReadFail: a failed read is answered with an RError and
\* the loop goes on.
ReadFail_mut(c) ==
    /\ st[c] \in {"Handshaking", "Ready"}
    /\ cur[c] = None
    /\ transport[c] \in {"eof", "down"}
    /\ out[c] = <<>>
    /\ out' = [out EXCEPT ![c] = Append(@, R_Error(0, "IoError", NOERRNO))]
    /\ UNCHANGED <<server_msize, fs_lock, st, cur, rmsize, wmsize, msize, version, handles,
                   requests, inq, transport, calls, dropped, unsent, trial>>

\* tr.next().await? fails, in the handshake loop or in the Ready loop.
ReadFail(c) ==
    /\ st[c] \in {"Handshaking", "Ready"}
    /\ cur[c] = None
    /\ \/ transport[c] \in {"eof", "down"}
       \/ inq[c] # <<>> /\ TSize(Head(inq[c])) > rmsize[c]
       \/ inq[c] # <<>> /\ ~Hydrates(Head(inq[c]))
    /\ Close(c)
    /\ dropped' = [dropped EXCEPT ![c] = FALSE]
    /\ UNCHANGED <<server_msize, fs_lock, rmsize, wmsize, msize, version, out, transport, calls,
                   unsent, trial>>

\* A faulty variant of ConnMsize: the client's msize is taken as it is.
ConnMsize_mut(m, client_msize) == client_msize

\* handshake: let conn_msize = msize.min(client_msize)
ConnMsize(m, client_msize) == Min(m, client_msize)

\* handshake, Ok(conn_version) arm: both msizes are set, then the RVersion is
\* sent; a failed send returns from handshake and connection_handler with `?`.
HandshakeOk(c, t, conn_msize, conn_version) ==
    LET reply == R_Version(t.tag, conn_msize, conn_version) IN
    /\ wmsize' = [wmsize EXCEPT ![c] = conn_msize]
    /\ rmsize' = [rmsize EXCEPT ![c] = conn_msize]
    /\ IF CanSend(c, conn_msize, reply)
       THEN /\ out' = [out EXCEPT ![c] = Append(@, reply)]
            /\ st' = [st EXCEPT ![c] = "Ready"]
            /\ msize' = [msize EXCEPT ![c] = conn_msize]
            /\ version' = [version EXCEPT ![c] = conn_version]
            /\ inq' = [inq EXCEPT ![c] = Tail(@)]
            /\ UNCHANGED <<cur, handles, requests, unsent>>
       ELSE /\ Close(c)
            /\ unsent' = [unsent EXCEPT ![c] = Some(reply)]
            /\ UNCHANGED <<out, msize, version>>

\* A faulty variant of HandshakeFail: the RError is sent and the handshake
\* loop goes on to the next message.
HandshakeFail_mut(c, t, e) ==
    LET reply == R_Error(t.tag, e, NOERRNO) IN
    /\ IF CanSend(c, wmsize[c], reply)
       THEN /\ out' = [out EXCEPT ![c] = Append(@, reply)]
            /\ UNCHANGED unsent
       ELSE /\ unsent' = [unsent EXCEPT ![c] = Some(reply)]
            /\ UNCHANGED out
    /\ inq' = [inq EXCEPT ![c] = Tail(@)]
    /\ UNCHANGED <<st, cur, handles, requests, rmsize, wmsize, msize, version>>

\* handshake, Err(e) arm: an RError is sent with the writer still at the
\* server's msize, then handshake returns Err(FailedToNegotiate).
HandshakeFail(c, t, e) ==
    LET reply == R_Error(t.tag, e, NOERRNO) IN
    /\ IF CanSend(c, wmsize[c], reply)
       THEN /\ out' = [out EXCEPT ![c] = Append(@, reply)]
            /\ UNCHANGED unsent
       ELSE /\ unsent' = [unsent EXCEPT ![c] = Some(reply)]
            /\ UNCHANGED out
    /\ Close(c)
    /\ UNCHANGED <<rmsize, wmsize, msize, version>>

\* One iteration of the handshake loop on a TVersion.
HandshakeVersion(c) ==
    /\ st[c] = "Handshaking"
    /\ CanRead(c)
    /\ Head(inq[c]).op = "Version"
    /\ LET t == T_hydrate(Head(inq[c]))
           conn_msize == ConnMsize(msize[c], t.msize)
           n == try_negotiate(version[c], t.version)
       IN  IF n.ok
           THEN HandshakeOk(c, t, conn_msize, n.version)
           ELSE HandshakeFail(c, t, n.err)
    /\ dropped' = [dropped EXCEPT ![c] = FALSE]
    /\ UNCHANGED <<server_msize, fs_lock, transport, calls, trial>>

\* A faulty variant of HandshakeDrop: the unexpected message is answered.
HandshakeDrop_mut(c) ==
    /\ st[c] = "Handshaking"
    /\ CanRead(c)
    /\ Head(inq[c]).op # "Version"
    /\ inq' = [inq EXCEPT ![c] = Tail(@)]
    /\ out' = [out EXCEPT ![c] = Append(@, R_Error(Head(inq[c]).tag, "EPROTO", 71))]
    /\ dropped' = [dropped EXCEPT ![c] = TRUE]
    /\ UNCHANGED <<server_msize, fs_lock, st, cur, rmsize, wmsize, msize, version, handles,
                   requests, transport, calls, unsent, trial>>

\* One iteration of the handshake loop on any other message: dropped.
HandshakeDrop(c) ==
    /\ st[c] = "Handshaking"
    /\ CanRead(c)
    /\ Head(inq[c]).op # "Version"
    /\ inq' = [inq EXCEPT ![c] = Tail(@)]
    /\ dropped' = [dropped EXCEPT ![c] = TRUE]
    /\ UNCHANGED <<server_msize, fs_lock, st, cur, rmsize, wmsize, msize, version, handles,
                   requests, out, transport, calls, unsent, trial>>

\* A faulty variant of LoopAtRead: the loop reads on while a request is
\* still being dispatched.
LoopAtRead_mut(c) == TRUE

\* The Ready loop awaits message_handler and the send of its reply before it
\* calls tr.next() again: it reads only when no request is being dispatched.
LoopAtRead(c) == cur[c] = None

\* The Ready loop reads the next T and inserts it into the tag table; on a
\* collision it drops the message and reads on.
Recv(c) ==
    /\ st[c] = "Ready"
    /\ LoopAtRead(c)
    /\ CanRead(c)
    /\ LET t == T_hydrate(Head(inq[c]))
           ins == Requests_insert(requests[c], t.tag, t)
       IN  /\ requests' = [requests EXCEPT ![c] = ins.requests]
           /\ cur' = [cur EXCEPT ![c] = IF ins.ok THEN Some(t) ELSE None]
    /\ inq' = [inq EXCEPT ![c] = Tail(@)]
    /\ calls' = [calls EXCEPT ![c] = <<>>]
    /\ UNCHANGED <<server_msize, fs_lock, st, rmsize, wmsize, msize, version, handles,
                   out, transport, dropped, unsent, trial>>

\* The end of an iteration of the Ready loop: message_handler returned
\* res = [reply, handles, requests, calls]; the tag is removed and, if it
\* was still there, the reply is sent.
EndIteration(c, t, res) ==
    LET rm == Requests_remove(res.requests, t.tag) IN
    /\ calls' = [calls EXCEPT ![c] = res.calls]
    /\ IF rm.ok
       THEN IF CanSend(c, wmsize[c], res.reply)
            THEN /\ out' = [out EXCEPT ![c] = Append(@, res.reply)]
                 /\ requests' = [requests EXCEPT ![c] = rm.requests]
                 /\ handles' = [handles EXCEPT ![c] = res.handles]
                 /\ cur' = [cur EXCEPT ![c] = None]
                 /\ UNCHANGED <<st, inq, unsent>>
            ELSE /\ Close(c)
                 /\ unsent' = [unsent EXCEPT ![c] = Some(res.reply)]
                 /\ UNCHANGED out
       ELSE /\ requests' = [requests EXCEPT ![c] = rm.requests]
            /\ handles' = [handles EXCEPT ![c] = res.handles]
            /\ cur' = [cur EXCEPT ![c] = None]
            /\ UNCHANGED <<st, inq, out, unsent>>
    /\ UNCHANGED <<server_msize, rmsize, wmsize, msize, version, transport, dropped, trial>>

\* An iteration whose handler leaves the filesystem registry's mutex as it
\* found it: every guard it took is dropped when message_handler returns.
Finish(c, t, res) ==
    /\ EndIteration(c, t, res)
    /\ UNCHANGED fs_lock

Dispatching(c, op) ==
    /\ st[c] = "Ready"
    /\ cur[c] # None
    /\ Unwrap(cur[c]).op = op

Result(reply, h, q, cs) == [reply |-> reply, handles |-> h, requests |-> q, calls |-> cs]

---------------------------------------------------------------------------
(* server/message_handler.rs *)

\* A faulty variant of DispatchVersion: a second TVersion resets the session
\* and clunks every fid.
DispatchVersion_mut(c) ==
    /\ Dispatching(c, "Version")
    /\ LET t == Unwrap(cur[c]) IN
       Finish(c, t, Result(R_Error(t.tag, "EALREADY", 114), EmptyMap, requests[c], <<>>))

\* T::Version
DispatchVersion(c) ==
    /\ Dispatching(c, "Version")
    /\ LET t == Unwrap(cur[c]) IN
       Finish(c, t, Result(R_Error(t.tag, "EALREADY", 114), handles[c], requests[c], <<>>))

DispatchAuth(c) ==
    /\ Dispatching(c, "Auth")
    /\ LET t == Unwrap(cur[c]) IN
       Finish(c, t, Result(R_Error(t.tag, "ECONNREFUSED", 111), handles[c], requests[c], <<>>))

DispatchFlush(c) ==
    /\ Dispatching(c, "Flush")
    /\ LET t == Unwrap(cur[c])
           rm == Requests_remove(requests[c], t.oldtag)
       IN  Finish(c, t, Result(R_Flush(t.tag), handles[c], rm.requests, <<>>))

\* A faulty variant of DispatchClunk: the fid is acknowledged but stays bound.
DispatchClunk_mut(c) ==
    /\ Dispatching(c, "Clunk")
    /\ LET t == Unwrap(cur[c])
           rm == FileHandles_remove(handles[c], t.fid)
       IN  IF rm.ok
           THEN Finish(c, t, Result(R_Clunk(t.tag), handles[c], requests[c], <<>>))
           ELSE Finish(c, t, Result(ErrorReply(t.tag, Err_FileHandlesError(rm.err)),
                                    handles[c], requests[c], <<>>))

\* T::Clunk
DispatchClunk(c) ==
    /\ Dispatching(c, "Clunk")
    /\ LET t == Unwrap(cur[c])
           rm == FileHandles_remove(handles[c], t.fid)
       IN  IF rm.ok
           THEN Finish(c, t, Result(R_Clunk(t.tag), rm.handles, requests[c], <<>>))
           ELSE Finish(c, t, Result(ErrorReply(t.tag, Err_FileHandlesError(rm.err)),
                                    handles[c], requests[c], <<>>))

\* The results a capability call of the back-end may return.
Ok(v) == [ok |-> TRUE, val |-> v]
Fail(fe) == [ok |-> FALSE, val |-> fe]
Failures == { Fail(fe) : fe \in FileErrors }
AttachResults == { Ok(f) : f \in Files } \cup Failures
WalkResults ==
    { Ok([file |-> o, files |-> l]) :
        o \in {None} \cup { Some(f) : f \in Files }, l \in WalkLists } \cup Failures
OpenResults ==
    { Ok([file |-> f, iounit |-> u]) : f \in OpenFiles, u \in Iounits } \cup Failures
UnitResults == { Ok(<<>>) } \cup Failures
StatResults == { Ok(StatOf(f)) : f \in Files } \cup Failures
CreateResults == { Ok(f) : f \in CreatedFiles } \cup Failures
ReadResults == { Ok(n) : n \in ReadCounts } \cup Failures
IoResults == { Ok(n) : n \in IoCounts } \cup Failures

\* A capability call of the back-end: the capability, the object it is called
\* on, its argument and the result it returned.
Call(fn, on, arg, ret) == [fn |-> fn, on |-> on, arg |-> arg, ret |-> ret]

\* A faulty variant of DispatchAttach: a filesystem that is not registered is
\* attached when the fid is free.
DispatchAttach_mut(c) ==
    /\ Dispatching(c, "Attach")
    /\ LET t == Unwrap(cur[c]) IN
       IF t.aname \notin Filesystems /\ t.fid \in DOMAIN handles[c]
       THEN Finish(c, t, Result(ErrorReply(t.tag, Err_NoSuchFilesystem),
                                handles[c], requests[c], <<>>))
       ELSE \E r \in AttachResults :
            LET cs == << Call("attach", t.aname, <<t.uname, t.aname, t.nuname>>, r) >>
                session == [uname |-> t.uname, aname |-> t.aname]
                ins == FileHandles_insert(handles[c], t.fid, session, r.val)
            IN  IF ~r.ok
                THEN Finish(c, t, Result(ErrorReply(t.tag, Err_FileError(r.val)),
                                         handles[c], requests[c], cs))
                ELSE IF ~ins.ok
                THEN Finish(c, t, Result(ErrorReply(t.tag, Err_FileHandlesError(ins.err)),
                                         handles[c], requests[c], cs))
                ELSE Finish(c, t, Result(R_Attach(t.tag, Qid(r.val)),
                                         ins.handles, requests[c], cs))

\* T::Attach
DispatchAttach(c) ==
    /\ Dispatching(c, "Attach")
    /\ LET t == Unwrap(cur[c]) IN
       IF t.aname \notin Filesystems
       THEN Finish(c, t, Result(ErrorReply(t.tag, Err_NoSuchFilesystem),
                                handles[c], requests[c], <<>>))
       ELSE \E r \in AttachResults :
            LET cs == << Call("attach", t.aname, <<t.uname, t.aname, t.nuname>>, r) >>
                session == [uname |-> t.uname, aname |-> t.aname]
                ins == FileHandles_insert(handles[c], t.fid, session, r.val)
            IN  IF ~r.ok
                THEN Finish(c, t, Result(ErrorReply(t.tag, Err_FileError(r.val)),
                                         handles[c], requests[c], cs))
                ELSE IF ~ins.ok
                THEN Finish(c, t, Result(ErrorReply(t.tag, Err_FileHandlesError(ins.err)),
                                         handles[c], requests[c], cs))
                ELSE Finish(c, t, Result(R_Attach(t.tag, Qid(r.val)),
                                         ins.handles, requests[c], cs))

\* A faulty variant of WalkReply: the two replies of a walk without a final
\* file are exchanged.
WalkReply_mut(c, t, handle, r) ==
    LET cs == << Call("walk", handle.file, t.wnames, r) >>
        err(e) == Result(ErrorReply(t.tag, e), handles[c], requests[c], cs)
        ok(reply, h) == Result(reply, h, requests[c], cs)
    IN  IF ~r.ok THEN err(Err_FileError(r.val))
        ELSE LET file == r.val.file
                 files == r.val.files
                 qids == Qids(files)
             IN  IF file = None
                 THEN IF Len(files) # Len(t.wnames)
                      THEN ok(R_Error(t.tag, "ENOENT", 2), handles[c])
                      ELSE ok(R_Walk(t.tag, qids), handles[c])
                 ELSE IF Len(files) # Len(t.wnames)
                      THEN ok(R_Error(t.tag, "EINVAL", 22), handles[c])
                      ELSE LET ins == FileHandles_insert(handles[c], t.newfid,
                                                         handle.session, Unwrap(file))
                           IN  IF ins.ok
                               THEN ok(R_Walk(t.tag, qids), ins.handles)
                               ELSE err(Err_FileHandlesError(ins.err))

\* A faulty variant of WalkReply: a partial walk binds newfid.
WalkReply_partial(c, t, handle, r) ==
    LET cs == << Call("walk", handle.file, t.wnames, r) >>
        err(e) == Result(ErrorReply(t.tag, e), handles[c], requests[c], cs)
        ok(reply, h) == Result(reply, h, requests[c], cs)
    IN  IF ~r.ok THEN err(Err_FileError(r.val))
        ELSE LET file == r.val.file
                 files == r.val.files
                 qids == Qids(files)
             IN  IF file = None
                 THEN IF Len(files) = Len(t.wnames)
                      THEN ok(R_Error(t.tag, "ENOENT", 2), handles[c])
                      ELSE ok(R_Walk(t.tag, qids),
                              Put(handles[c], t.newfid,
                                  [session |-> handle.session, file |-> handle.file,
                                   of |-> None]))
                 ELSE IF Len(files) # Len(t.wnames)
                      THEN ok(R_Error(t.tag, "EINVAL", 22), handles[c])
                      ELSE LET ins == FileHandles_insert(handles[c], t.newfid,
                                                         handle.session, Unwrap(file))
                           IN  IF ins.ok
                               THEN ok(R_Walk(t.tag, qids), ins.handles)
                               ELSE err(Err_FileHandlesError(ins.err))

\* T::Walk after handles.get(fid): the reply and the fid table for the result
\* r of handle.file.walk(path).
\* A faulty variant of WalkReply: newfid gets a session of its own, made of
\* the aname of fid's session and an empty uname.
WalkReply_anon(c, t, handle, r) ==
    LET cs == << Call("walk", handle.file, t.wnames, r) >>
        err(e) == Result(ErrorReply(t.tag, e), handles[c], requests[c], cs)
        ok(reply, h) == Result(reply, h, requests[c], cs)
    IN  IF ~r.ok THEN err(Err_FileError(r.val))
        ELSE LET file == r.val.file
                 files == r.val.files
                 qids == Qids(files)
             IN  IF file = None
                 THEN IF Len(files) = Len(t.wnames)
                      THEN ok(R_Error(t.tag, "ENOENT", 2), handles[c])
                      ELSE ok(R_Walk(t.tag, qids), handles[c])
                 ELSE IF Len(files) # Len(t.wnames)
                      THEN ok(R_Error(t.tag, "EINVAL", 22), handles[c])
                      ELSE LET ins == FileHandles_insert(handles[c], t.newfid,
                                         [uname |-> "", aname |-> handle.session.aname],
                                         Unwrap(file))
                           IN  IF ins.ok
                               THEN ok(R_Walk(t.tag, qids), ins.handles)
                               ELSE err(Err_FileHandlesError(ins.err))

\* A faulty variant of WalkReply: newfid inherits the open file of fid.
WalkReply_inherit(c, t, handle, r) ==
    LET cs == << Call("walk", handle.file, t.wnames, r) >>
        err(e) == Result(ErrorReply(t.tag, e), handles[c], requests[c], cs)
        ok(reply, h) == Result(reply, h, requests[c], cs)
    IN  IF ~r.ok THEN err(Err_FileError(r.val))
        ELSE LET file == r.val.file
                 files == r.val.files
                 qids == Qids(files)
             IN  IF file = None
                 THEN IF Len(files) = Len(t.wnames)
                      THEN ok(R_Error(t.tag, "ENOENT", 2), handles[c])
                      ELSE ok(R_Walk(t.tag, qids), handles[c])
                 ELSE IF Len(files) # Len(t.wnames)
                      THEN ok(R_Error(t.tag, "EINVAL", 22), handles[c])
                      ELSE LET ins == FileHandles_insert(handles[c], t.newfid,
                                                         handle.session, Unwrap(file))
                           IN  IF ins.ok
                               THEN ok(R_Walk(t.tag, qids),
                                       [ins.handles EXCEPT ![t.newfid].of = handle.of])
                               ELSE err(Err_FileHandlesError(ins.err))

WalkReply(c, t, handle, r) ==
    LET cs == << Call("walk", handle.file, t.wnames, r) >>
        err(e) == Result(ErrorReply(t.tag, e), handles[c], requests[c], cs)
        ok(reply, h) == Result(reply, h, requests[c], cs)
    IN  IF ~r.ok THEN err(Err_FileError(r.val))
        ELSE LET file == r.val.file
                 files == r.val.files
                 qids == Qids(files)
             IN  IF file = None
                 THEN IF Len(files) = Len(t.wnames)
                      THEN ok(R_Error(t.tag, "ENOENT", 2), handles[c])
                      ELSE ok(R_Walk(t.tag, qids), handles[c])
                 ELSE IF Len(files) # Len(t.wnames)
                      THEN ok(R_Error(t.tag, "EINVAL", 22), handles[c])
                      ELSE LET ins == FileHandles_insert(handles[c], t.newfid,
                                                         handle.session, Unwrap(file))
                           IN  IF ins.ok
                               THEN ok(R_Walk(t.tag, qids), ins.handles)
                               ELSE err(Err_FileHandlesError(ins.err))

DispatchWalk(c) ==
    /\ Dispatching(c, "Walk")
    /\ LET t == Unwrap(cur[c])
           g == FileHandles_get(handles[c], t.fid)
       IN  IF ~g.ok
           THEN Finish(c, t, Result(ErrorReply(t.tag, Err_FileHandlesError(g.err)),
                                    handles[c], requests[c], <<>>))
           ELSE \E r \in WalkResults : Finish(c, t, WalkReply(c, t, Unwrap(g.handle), r))

\* A faulty variant of OpenReturn: a fid that is open keeps its open file.
OpenReturn_mut(c, t, handle, r) ==
    LET cs == << Call("open", handle.file, t.mode, r) >>
    IN  IF ~r.ok
        THEN Finish(c, t, Result(ErrorReply(t.tag, Err_FileError(r.val)),
                                 handles[c], requests[c], cs))
        ELSE Finish(c, t,
               Result(R_Open(t.tag, Qid(handle.file), r.val.iounit),
                      IF handle.of = None
                      THEN [handles[c] EXCEPT ![t.fid].of = Some(r.val)]
                      ELSE handles[c],
                      requests[c], cs))

\* T::Open from the return of file.open(mode) with r.
OpenReturn(c, t, handle, r) ==
    LET cs == << Call("open", handle.file, t.mode, r) >>
    IN  IF ~r.ok
        THEN Finish(c, t, Result(ErrorReply(t.tag, Err_FileError(r.val)),
                                 handles[c], requests[c], cs))
        ELSE Finish(c, t,
               Result(R_Open(t.tag, Qid(handle.file), r.val.iounit),
                      [handles[c] EXCEPT ![t.fid].of = Some(r.val)],
                      requests[c], cs))

\* T::Open
DispatchOpen(c) ==
    /\ Dispatching(c, "Open")
    /\ LET t == Unwrap(cur[c])
           g == FileHandles_get_mut(handles[c], t.fid)
       IN  IF ~g.ok
           THEN Finish(c, t, Result(ErrorReply(t.tag, Err_FileHandlesError(g.err)),
                                    handles[c], requests[c], <<>>))
           ELSE \E r \in OpenResults : OpenReturn(c, t, Unwrap(g.handle), r)

\* A faulty variant of DispatchRemove: the fid stays bound when unlink fails.
DispatchRemove_mut(c) ==
    /\ Dispatching(c, "Remove")
    /\ LET t == Unwrap(cur[c])
           rm == FileHandles_remove(handles[c], t.fid)
       IN  IF ~rm.ok
           THEN Finish(c, t, Result(ErrorReply(t.tag, Err_FileHandlesError(rm.err)),
                                    handles[c], requests[c], <<>>))
           ELSE \E r \in UnitResults :
                LET cs == << Call("unlink", Unwrap(rm.handle).file, <<>>, r) >> IN
                IF ~r.ok
                THEN Finish(c, t, Result(ErrorReply(t.tag, Err_FileError(r.val)),
                                         handles[c], requests[c], cs))
                ELSE Finish(c, t, Result(R_Remove(t.tag), rm.handles, requests[c], cs))

\* T::Remove
DispatchRemove(c) ==
    /\ Dispatching(c, "Remove")
    /\ LET t == Unwrap(cur[c])
           rm == FileHandles_remove(handles[c], t.fid)
       IN  IF ~rm.ok
           THEN Finish(c, t, Result(ErrorReply(t.tag, Err_FileHandlesError(rm.err)),
                                    handles[c], requests[c], <<>>))
           ELSE \E r \in UnitResults :
                LET cs == << Call("unlink", Unwrap(rm.handle).file, <<>>, r) >> IN
                IF ~r.ok
                THEN Finish(c, t, Result(ErrorReply(t.tag, Err_FileError(r.val)),
                                         rm.handles, requests[c], cs))
                ELSE Finish(c, t, Result(R_Remove(t.tag), rm.handles, requests[c], cs))

\* A faulty variant of DispatchStat: a fid whose stat fails is dropped.
DispatchStat_drop(c) ==
    /\ Dispatching(c, "Stat")
    /\ LET t == Unwrap(cur[c])
           g == FileHandles_get(handles[c], t.fid)
       IN  IF ~g.ok
           THEN Finish(c, t, Result(ErrorReply(t.tag, Err_FileHandlesError(g.err)),
                                    handles[c], requests[c], <<>>))
           ELSE \E r \in StatResults :
                LET cs == << Call("stat", Unwrap(g.handle).file, <<>>, r) >> IN
                IF ~r.ok
                THEN Finish(c, t, Result(ErrorReply(t.tag, Err_FileError(r.val)),
                                         Del(handles[c], t.fid), requests[c], cs))
                ELSE Finish(c, t, Result(R_Stat(t.tag, r.val), handles[c], requests[c], cs))

\* T::Stat
DispatchStat(c) ==
    /\ Dispatching(c, "Stat")
    /\ LET t == Unwrap(cur[c])
           g == FileHandles_get(handles[c], t.fid)
       IN  IF ~g.ok
           THEN Finish(c, t, Result(ErrorReply(t.tag, Err_FileHandlesError(g.err)),
                                    handles[c], requests[c], <<>>))
           ELSE \E r \in StatResults :
                LET cs == << Call("stat", Unwrap(g.handle).file, <<>>, r) >> IN
                IF ~r.ok
                THEN Finish(c, t, Result(ErrorReply(t.tag, Err_FileError(r.val)),
                                         handles[c], requests[c], cs))
                ELSE Finish(c, t, Result(R_Stat(t.tag, r.val), handles[c], requests[c], cs))

\* A faulty variant of CreateArgs: perm is truncated to 16 bits, not masked.
CreateArgs_mut(t) ==
    << t.name, t.perm.lo % \h10000, FileType_from_u32(t.perm), t.mode, t.extension >>

\* T::Create: mode.into(), ty = perm.into(), perm = (perm & 0o777) as u16; the
\* arguments of file.create(&name, perm, ty, mode, &extension).
CreateArgs(t) ==
    << t.name, t.perm.lo % \o1000, FileType_from_u32(t.perm), t.mode, t.extension >>

\* T::Create: the created file is opened and its open file is stored in the
\* handle of fid; the handle's file stays the one it was.
DispatchCreate(c) ==
    /\ Dispatching(c, "Create")
    /\ LET t == Unwrap(cur[c])
           g == FileHandles_get_mut(handles[c], t.fid)
       IN  IF ~g.ok
           THEN Finish(c, t, Result(ErrorReply(t.tag, Err_FileHandlesError(g.err)),
                                    handles[c], requests[c], <<>>))
           ELSE \E r \in CreateResults :
                LET handle == Unwrap(g.handle)
                    c1 == Call("create", handle.file, CreateArgs(t), r)
                IN  IF ~r.ok
                    THEN Finish(c, t, Result(ErrorReply(t.tag, Err_FileError(r.val)),
                                             handles[c], requests[c], <<c1>>))
                    ELSE \E o \in OpenResults :
                         LET cs == << c1, Call("open", r.val, t.mode, o) >> IN
                         IF ~o.ok
                         THEN Finish(c, t, Result(ErrorReply(t.tag, Err_FileError(o.val)),
                                                  handles[c], requests[c], cs))
                         ELSE Finish(c, t,
                                Result(R_Create(t.tag, Qid(r.val), 0),
                                       [handles[c] EXCEPT ![t.fid].of = Some(o.val)],
                                       requests[c], cs))

\* vec![0u8; size.min(msize)] resized to the n bytes read_at reports.
ReadBuf(n) == [i \in 1..n |-> 0]

\* A faulty variant of DispatchRead: a fid without an open file reads as an
\* empty file.
DispatchRead_mut(c) ==
    /\ Dispatching(c, "Read")
    /\ LET t == Unwrap(cur[c])
           g == FileHandles_get_mut(handles[c], t.fid)
       IN  IF ~g.ok
           THEN Finish(c, t, Result(ErrorReply(t.tag, Err_FileHandlesError(g.err)),
                                    handles[c], requests[c], <<>>))
           ELSE LET handle == Unwrap(g.handle) IN
                IF handle.of = None
                THEN Finish(c, t, Result(R_Read(t.tag, <<>>), handles[c], requests[c], <<>>))
                ELSE \E r \in ReadResults :
                     LET cs == << Call("read_at", Unwrap(handle.of).file,
                                       <<Min(t.size, msize[c]), t.offset>>, r) >> IN
                     IF ~r.ok
                     THEN Finish(c, t, Result(ErrorReply(t.tag, Err_FileError(r.val)),
                                              handles[c], requests[c], cs))
                     ELSE Finish(c, t, Result(R_Read(t.tag, ReadBuf(r.val)),
                                              handles[c], requests[c], cs))

\* A faulty variant of DispatchRead: the buffer has count bytes, whatever the
\* msize.
DispatchRead_count(c) ==
    /\ Dispatching(c, "Read")
    /\ LET t == Unwrap(cur[c])
           g == FileHandles_get_mut(handles[c], t.fid)
       IN  IF ~g.ok
           THEN Finish(c, t, Result(ErrorReply(t.tag, Err_FileHandlesError(g.err)),
                                    handles[c], requests[c], <<>>))
           ELSE LET handle == Unwrap(g.handle) IN
                IF handle.of = None
                THEN Finish(c, t, Result(R_Error(t.tag, "EBADFD", 77),
                                         handles[c], requests[c], <<>>))
                ELSE \E r \in ReadResults :
                     LET cs == << Call("read_at", Unwrap(handle.of).file,
                                       <<t.size, t.offset>>, r) >> IN
                     IF ~r.ok
                     THEN Finish(c, t, Result(ErrorReply(t.tag, Err_FileError(r.val)),
                                              handles[c], requests[c], cs))
                     ELSE Finish(c, t, Result(R_Read(t.tag, ReadBuf(r.val)),
                                              handles[c], requests[c], cs))

\* T::Read
DispatchRead(c) ==
    /\ Dispatching(c, "Read")
    /\ LET t == Unwrap(cur[c])
           g == FileHandles_get_mut(handles[c], t.fid)
       IN  IF ~g.ok
           THEN Finish(c, t, Result(ErrorReply(t.tag, Err_FileHandlesError(g.err)),
                                    handles[c], requests[c], <<>>))
           ELSE LET handle == Unwrap(g.handle) IN
                IF handle.of = None
                THEN Finish(c, t, Result(R_Error(t.tag, "EBADFD", 77),
                                         handles[c], requests[c], <<>>))
                ELSE \E r \in ReadResults :
                     LET cs == << Call("read_at", Unwrap(handle.of).file,
                                       <<Min(t.size, msize[c]), t.offset>>, r) >> IN
                     IF ~r.ok
                     THEN Finish(c, t, Result(ErrorReply(t.tag, Err_FileError(r.val)),
                                              handles[c], requests[c], cs))
                     ELSE Finish(c, t, Result(R_Read(t.tag, ReadBuf(r.val)),
                                              handles[c], requests[c], cs))

DispatchWrite(c) ==
    /\ Dispatching(c, "Write")
    /\ LET t == Unwrap(cur[c])
           g == FileHandles_get_mut(handles[c], t.fid)
       IN  IF ~g.ok
           THEN Finish(c, t, Result(ErrorReply(t.tag, Err_FileHandlesError(g.err)),
                                    handles[c], requests[c], <<>>))
           ELSE LET handle == Unwrap(g.handle) IN
                IF handle.of = None
                THEN Finish(c, t, Result(R_Error(t.tag, "EBADFD", 77),
                                         handles[c], requests[c], <<>>))
                ELSE \E r \in IoResults :
                     LET cs == << Call("write_at", Unwrap(handle.of).file,
                                       <<t.data, t.offset>>, r) >> IN
                     IF ~r.ok
                     THEN Finish(c, t, Result(ErrorReply(t.tag, Err_FileError(r.val)),
                                              handles[c], requests[c], cs))
                     ELSE Finish(c, t, Result(R_Write(t.tag, r.val),
                                              handles[c], requests[c], cs))

DispatchWStat(c) ==
    /\ Dispatching(c, "WStat")
    /\ LET t == Unwrap(cur[c])
           g == FileHandles_get_mut(handles[c], t.fid)
       IN  IF ~g.ok
           THEN Finish(c, t, Result(ErrorReply(t.tag, Err_FileHandlesError(g.err)),
                                    handles[c], requests[c], <<>>))
           ELSE \E r \in UnitResults :
                LET cs == << Call("wstat", Unwrap(g.handle).file, t.stat, r) >> IN
                IF ~r.ok
                THEN Finish(c, t, Result(ErrorReply(t.tag, Err_FileError(r.val)),
                                         handles[c], requests[c], cs))
                ELSE Finish(c, t, Result(R_WStat(t.tag), handles[c], requests[c], cs))

DispatchUnknown(c) ==
    /\ Dispatching(c, "Unknown")
    /\ LET t == Unwrap(cur[c]) IN
       Finish(c, t, Result(R_Error(t.tag, "ENOSYS", 38), handles[c], requests[c], <<>>))

---------------------------------------------------------------------------
(* The specification of one connection *)

Step(c) ==
    \/ Accept(c)
    \/ \E f \in TFrames : ClientSend(c, f)
    \/ ClientRecv(c)
    \/ Disconnect(c)
    \/ ReadFail(c)
    \/ HandshakeVersion(c)
    \/ HandshakeDrop(c)
    \/ Recv(c)
    \/ DispatchVersion(c)
    \/ DispatchAuth(c)
    \/ DispatchFlush(c)
    \/ DispatchClunk(c)
    \/ DispatchUnknown(c)
    \/ DispatchAttach(c)
    \/ DispatchWalk(c)
    \/ DispatchOpen(c)
    \/ DispatchRemove(c)
    \/ DispatchStat(c)
    \/ DispatchCreate(c)
    \/ DispatchRead(c)
    \/ DispatchWrite(c)
    \/ DispatchWStat(c)

Next == \E c \in Conns : Step(c)

Spec == Init /\ [][Next]_vars

---------------------------------------------------------------------------
(* One connection used by two users: every handler, requests with tag 1,    *)
(* attaches as "u" and as "v".                                              *)

SessionFrames ==
    { f \in TFrames :
        /\ f.tag = 1
        /\ f.op = "Version" => (f.msize = 8192 /\ f.version = <<"9P2000", "u">>) }
      \cup { [op |-> "Attach", tag |-> 1, fid |-> f, afid |-> NOFID, uname |-> "v",
              aname |-> "", nuname |-> 0] : f \in Fids }

StepSessions(c) ==
    \/ Accept(c)
    \/ \E f \in SessionFrames : ClientSend(c, f)
    \/ ClientRecv(c)
    \/ Disconnect(c)
    \/ ReadFail(c)
    \/ HandshakeVersion(c)
    \/ HandshakeDrop(c)
    \/ Recv(c)
    \/ DispatchVersion(c)
    \/ DispatchAuth(c)
    \/ DispatchFlush(c)
    \/ DispatchClunk(c)
    \/ DispatchUnknown(c)
    \/ DispatchAttach(c)
    \/ DispatchWalk(c)
    \/ DispatchOpen(c)
    \/ DispatchRemove(c)
    \/ DispatchStat(c)
    \/ DispatchCreate(c)
    \/ DispatchRead(c)
    \/ DispatchWrite(c)
    \/ DispatchWStat(c)

NextSessions == \E c \in Conns : StepSessions(c)

SpecSessions == Init /\ [][NextSessions]_vars

---------------------------------------------------------------------------
(* Open, read and write on one connection: requests with tag 1, a back-end  *)
(* that hands out two open files with different iounits, and reads that     *)
(* ask for more than msize.                                                 *)

MoreOpenResults == { Ok([file |-> "open one", iounit |-> 8168]) }

\* The last set is the TReads with a count of 30, above the smallest msize.
IoFrames ==
    { f \in TFrames :
        /\ f.tag = 1
        /\ f.op \in {"Version", "Attach", "Walk", "Open", "Read", "Write", "Clunk"}
        /\ f.op = "Version" => (f.msize = 8192 /\ f.version = <<"9P2000", "u">>)
        /\ f.op = "Attach" => (f.fid = 0 /\ f.aname \in Filesystems) }
      \cup { [op |-> "Read", tag |-> 1, fid |-> f, offset |-> 0, size |-> 30] :
              f \in Fids }

\* T::Open on a live fid whose file.open returns one of MoreOpenResults.
OpenMore(c) ==
    /\ Dispatching(c, "Open")
    /\ LET t == Unwrap(cur[c])
           g == FileHandles_get_mut(handles[c], t.fid)
       IN  /\ g.ok
           /\ \E r \in MoreOpenResults : OpenReturn(c, t, Unwrap(g.handle), r)

StepIo(c) ==
    \/ Accept(c)
    \/ \E f \in IoFrames : ClientSend(c, f)
    \/ ClientRecv(c)
    \/ HandshakeVersion(c)
    \/ Recv(c)
    \/ DispatchAttach(c)
    \/ DispatchWalk(c)
    \/ DispatchOpen(c)
    \/ OpenMore(c)
    \/ DispatchRead(c)
    \/ DispatchWrite(c)
    \/ DispatchClunk(c)

NextIo == \E c \in Conns : StepIo(c)

SpecIo == Init /\ [][NextIo]_vars

---------------------------------------------------------------------------
(* Version negotiation applied to pairs of version strings *)

VersionStrings ==
    { <<"9P2000">>, <<"9P2000", "u">>, <<"9P2000", "L">>, <<"9P2000", "L", "x">>,
      <<"9P2001">>, <<"9P2001", "L">>, <<"9P2001", "u">>, <<"">> }

InitVersion ==
    /\ server_msize \in ServerMsizes
    /\ fs_lock = None
    /\ st = [c \in AllConns |-> "Idle"]
    /\ cur = [c \in AllConns |-> None]
    /\ rmsize = [c \in AllConns |-> 0]
    /\ wmsize = [c \in AllConns |-> 0]
    /\ msize = [c \in AllConns |-> 0]
    /\ version = [c \in AllConns |-> ServerVersion]
    /\ handles = [c \in AllConns |-> EmptyMap]
    /\ requests = [c \in AllConns |-> EmptyMap]
    /\ inq = [c \in AllConns |-> <<>>]
    /\ out = [c \in AllConns |-> <<>>]
    /\ transport = [c \in AllConns |-> "up"]
    /\ calls = [c \in AllConns |-> <<>>]
    /\ dropped = [c \in AllConns |-> FALSE]
    /\ unsent = [c \in AllConns |-> None]
    /\ trial \in { [fn |-> "try_negotiate", self |-> a, peer |-> b, result |-> None] :
                     a \in VersionStrings, b \in VersionStrings }

\* self.parse()?.try_negotiate(&peer.parse()?)
Negotiate ==
    /\ trial.result = None
    /\ trial' = [trial EXCEPT !.result =
                    Some(try_negotiate(FromStr(trial.self), FromStr(trial.peer)))]
    /\ UNCHANGED <<server_msize, fs_lock, st, cur, rmsize, wmsize, msize, version, handles,
                   requests, inq, out, transport, calls, dropped, unsent>>

NextVersion == Negotiate

SpecVersion == InitVersion /\ [][NextVersion]_vars

---------------------------------------------------------------------------
(* The tag table of a Ready connection, its operations called directly
   between two iterations of the Ready loop *)

TagCall(fn, key, val, before, r, ret) ==
    Some([fn |-> fn, key |-> key, val |-> val, before |-> before, ok |-> r.ok,
          err |-> r.err, ret |-> ret, after |-> r.requests])

Tags_insert(c, t) ==
    /\ st[c] = "Ready"
    /\ cur[c] = None
    /\ LET r == Requests_insert(requests[c], t.tag, t) IN
       /\ requests' = [requests EXCEPT ![c] = r.requests]
       /\ trial' = TagCall("insert", t.tag, Some(t), requests[c], r, None)
    /\ UNCHANGED <<server_msize, fs_lock, st, cur, rmsize, wmsize, msize, version, handles,
                   inq, out, transport, calls, dropped, unsent>>

Tags_remove(c, tag) ==
    /\ st[c] = "Ready"
    /\ cur[c] = None
    /\ LET r == Requests_remove(requests[c], tag) IN
       /\ requests' = [requests EXCEPT ![c] = r.requests]
       /\ trial' = TagCall("remove", tag, None, requests[c], r, r.request)
    /\ UNCHANGED <<server_msize, fs_lock, st, cur, rmsize, wmsize, msize, version, handles,
                   inq, out, transport, calls, dropped, unsent>>

StepTags(c) ==
    \/ Accept(c)
    \/ \E f \in TVersionFrames \cup TFlushFrames : ClientSend(c, f)
    \/ ClientRecv(c)
    \/ HandshakeVersion(c)
    \/ Recv(c)
    \/ \E t \in TFlushFrames : Tags_insert(c, t)
    \/ \E tag \in Tags : Tags_remove(c, tag)

NextTags == \E c \in Conns : StepTags(c)

SpecTags == Init /\ [][NextTags]_vars

---------------------------------------------------------------------------
(* The fid table of a connection, its operations called directly *)

FidCall(fn, key, val, before, r, ret, after) ==
    Some([fn |-> fn, key |-> key, val |-> val, before |-> before, ok |-> r.ok,
          err |-> r.err, ret |-> ret, after |-> after])

Fids_insert(c, fid, session, file) ==
    /\ st[c] = "Handshaking"
    /\ LET r == FileHandles_insert(handles[c], fid, session, file) IN
       /\ handles' = [handles EXCEPT ![c] = r.handles]
       /\ trial' = FidCall("insert", fid, Some(<<session, file>>), handles[c], r, None,
                           r.handles)
    /\ UNCHANGED <<server_msize, fs_lock, st, cur, rmsize, wmsize, msize, version, requests,
                   inq, out, transport, calls, dropped, unsent>>

Fids_remove(c, fid) ==
    /\ st[c] = "Handshaking"
    /\ LET r == FileHandles_remove(handles[c], fid) IN
       /\ handles' = [handles EXCEPT ![c] = r.handles]
       /\ trial' = FidCall("remove", fid, None, handles[c], r, r.handle, r.handles)
    /\ UNCHANGED <<server_msize, fs_lock, st, cur, rmsize, wmsize, msize, version, requests,
                   inq, out, transport, calls, dropped, unsent>>

Fids_get(c, fid) ==
    /\ st[c] = "Handshaking"
    /\ LET r == FileHandles_get(handles[c], fid) IN
       trial' = FidCall("get", fid, None, handles[c], r, r.handle, handles[c])
    /\ UNCHANGED <<server_msize, fs_lock, st, cur, rmsize, wmsize, msize, version, handles,
                   requests, inq, out, transport, calls, dropped, unsent>>

\* get_mut, and through the borrowed handle the assignment handle.of = Some(of)
\* of the Open handler.
Fids_get_mut(c, fid, of) ==
    /\ st[c] = "Handshaking"
    /\ LET r == FileHandles_get_mut(handles[c], fid)
           after == IF r.ok THEN [handles[c] EXCEPT ![fid].of = Some(of)] ELSE handles[c]
       IN  /\ handles' = [handles EXCEPT ![c] = after]
           /\ trial' = FidCall("get_mut", fid, Some(of), handles[c], r, r.handle, after)
    /\ UNCHANGED <<server_msize, fs_lock, st, cur, rmsize, wmsize, msize, version, requests,
                   inq, out, transport, calls, dropped, unsent>>

StepFids(c) ==
    \/ Accept(c)
    \/ \E fid \in Fids, file \in Files :
          \E session \in { x \in Sessions : x.aname \in Filesystems } :
             Fids_insert(c, fid, session, file)
    \/ \E fid \in Fids : Fids_remove(c, fid)
    \/ \E fid \in Fids : Fids_get(c, fid)
    \/ \E fid \in Fids, r \in { x \in OpenResults : x.ok } : Fids_get_mut(c, fid, r.val)

NextFids == \E c \in Conns : StepFids(c)

SpecFids == Init /\ [][NextFids]_vars

---------------------------------------------------------------------------
(* Two connections served at once.  The Attach arm of message_handler is   *)
(* taken in its two steps: up to the await of Filesystem::attach, and from *)
(* its return to the end of the iteration.                                 *)

\* The frames the two clients send: one tag, one fid.
ConnFrames ==
    { f \in TVersionFrames : f.tag = 1 /\ f.msize = 8192 /\ f.version = <<"9P2000", "u">> }
        \cup { f \in TAttachFrames : f.tag = 1 /\ f.fid = 0 /\ f.aname \in Filesystems }
        \cup { f \in TClunkFrames : f.tag = 1 /\ f.fid = 0 }

\* The attach call of c has been made and has not returned.
AttachPending(c) ==
    /\ calls[c] # <<>>
    /\ calls[c][1].fn = "attach"
    /\ calls[c][1].ret = None

\* filesystems.lock().await is granted, the registry is looked up, and
\* fs.attach(..) is called and suspends; `filesystems`, the guard, is a local
\* of the arm and `fs` borrows from it, so the guard is alive across the await.
AttachLookup(c) ==
    /\ Dispatching(c, "Attach")
    /\ calls[c] = <<>>
    /\ fs_lock = None
    /\ LET t == Unwrap(cur[c]) IN
       IF t.aname \notin Filesystems
       THEN Finish(c, t, Result(ErrorReply(t.tag, Err_NoSuchFilesystem),
                                handles[c], requests[c], <<>>))
       ELSE /\ fs_lock' = Some(c)
            /\ calls' = [calls EXCEPT ![c] =
                            << Call("attach", t.aname, <<t.uname, t.aname, t.nuname>>, None) >>]
            /\ UNCHANGED <<server_msize, st, cur, rmsize, wmsize, msize, version, handles,
                           requests, inq, out, transport, dropped, unsent, trial>>

\* fs.attach(..) returns; the handle is inserted, the arm ends and drops the
\* guard, and the iteration ends.
AttachReturn(c) ==
    /\ Dispatching(c, "Attach")
    /\ AttachPending(c)
    /\ fs_lock = Some(c)
    /\ fs_lock' = None
    /\ LET t == Unwrap(cur[c]) IN
       \E r \in AttachResults :
            LET cs == << Call("attach", t.aname, <<t.uname, t.aname, t.nuname>>, r) >>
                session == [uname |-> t.uname, aname |-> t.aname]
                ins == FileHandles_insert(handles[c], t.fid, session, r.val)
            IN  IF ~r.ok
                THEN EndIteration(c, t, Result(ErrorReply(t.tag, Err_FileError(r.val)),
                                               handles[c], requests[c], cs))
                ELSE IF ~ins.ok
                THEN EndIteration(c, t, Result(ErrorReply(t.tag, Err_FileHandlesError(ins.err)),
                                               handles[c], requests[c], cs))
                ELSE EndIteration(c, t, Result(R_Attach(t.tag, Qid(r.val)),
                                               ins.handles, requests[c], cs))

StepConns(c) ==
    \/ Accept(c)
    \/ \E f \in ConnFrames : ClientSend(c, f)
    \/ ClientRecv(c)
    \/ Disconnect(c)
    \/ Eof(c)
    \/ Shut(c)
    \/ ReadFail(c)
    \/ HandshakeVersion(c)
    \/ HandshakeDrop(c)
    \/ Recv(c)
    \/ AttachLookup(c)
    \/ AttachReturn(c)
    \/ DispatchVersion(c)
    \/ DispatchClunk(c)

NextConns == \E c \in AllConns : StepConns(c)

SpecConns == Init /\ [][NextConns]_vars

\* The steps of the task of connection c.  The runtime schedules every task
\* that can run; the mutex of the registry grants the lock in the order it
\* was asked for, so a task that waits for it gets it; a capability call of
\* the back-end returns.
Fair(c) ==
    /\ WF_vars(ReadFail(c))
    /\ WF_vars(HandshakeVersion(c))
    /\ WF_vars(HandshakeDrop(c))
    /\ WF_vars(Recv(c))
    /\ SF_vars(AttachLookup(c))
    /\ WF_vars(AttachReturn(c))
    /\ WF_vars(DispatchVersion(c))
    /\ WF_vars(DispatchClunk(c))

FairConns == SpecConns /\ \A c \in AllConns : Fair(c)

---------------------------------------------------------------------------
(* The codec and the Stat builder called directly: one call from the     *)
(* initial state, its arguments and its result kept in trial.             *)

\* The bytes of an Unknown(b): one no named type has, and one a named type has.
UnknownBytes == { \h01, \h10, \h80, \hFF }
NamedTypes == PlainTypes \cup SpecialTypes
FileTypes == NamedTypes \cup { Unknown(b) : b \in UnknownBytes }
QidVersions == { 0, 10, \h10000 }
QidPaths == { 1, \hF00CAFE }
QidValues == { Qid_new(ty, v, p) : ty \in FileTypes, v \in QidVersions, p \in QidPaths }
\* The low 9 bits of a mode word.
PermBits == 0 .. \o777
\* The modes given to with_mode.
BuilderModes ==
    { U32(hi, lo) : hi \in { \h00, \h80, \hAB, \hFF },
                    lo \in { 0, \o644, \h100000, \h800000, \hCDEF12, \hFFFFFF } }

\* A FileType is encoded as a mode word and as a qid byte, permission bits
\* are set in the word, and the word is decoded.
FileTypeCodec(qt, p) ==
    LET word == U32_or(FileType_into_u32(qt), U32(0, p)) IN
    /\ trial = None
    /\ trial' = [fn |-> "FileType", ty |-> qt, perm |-> p, u32 |-> FileType_into_u32(qt),
                 u8 |-> FileType_into_u8(qt), word |-> word,
                 decoded |-> FileType_from_u32(word)]
    /\ UNCHANGED <<server_msize, fs_lock, st, cur, rmsize, wmsize, msize, version, handles,
                   requests, inq, out, transport, calls, dropped, unsent>>

\* A Stat is built for a qid and a mode.
StatBuild(qid, mode) ==
    /\ trial = None
    /\ trial' = [fn |-> "build", qid |-> qid, mode |-> mode,
                 stat |-> StatBuilder_build("f", qid, mode)]
    /\ UNCHANGED <<server_msize, fs_lock, st, cur, rmsize, wmsize, msize, version, handles,
                   requests, inq, out, transport, calls, dropped, unsent>>

\* A Qid is dehydrated and the bytes are hydrated.
QidRoundTrip(q) ==
    /\ trial = None
    /\ trial' = [fn |-> "Qid", v |-> q, bytes |-> Qid_dehydrate(q),
                 back |-> Qid_hydrate(Qid_dehydrate(q))]
    /\ UNCHANGED <<server_msize, fs_lock, st, cur, rmsize, wmsize, msize, version, handles,
                   requests, inq, out, transport, calls, dropped, unsent>>

\* An RAttach is dehydrated and the bytes are hydrated.
RAttachRoundTrip(r) ==
    /\ trial = None
    /\ trial' = [fn |-> "RAttach", v |-> r, bytes |-> RAttach_dehydrate(r),
                 back |-> RAttach_hydrate(RAttach_dehydrate(r))]
    /\ UNCHANGED <<server_msize, fs_lock, st, cur, rmsize, wmsize, msize, version, handles,
                   requests, inq, out, transport, calls, dropped, unsent>>

\* The size prefixes a peer can put on the wire (the first four bytes of a
\* frame, little endian), the msizes of a reader, and the two ways the crate
\* is built: with overflow checks (the dev profile) or without (release).
SizePrefixes == 0 .. 8 \cup {24, 25, 8192, 8193}
ReaderMsizes == {24, 8192}
Builds == {"checked", "unchecked"}

\* aio.rs 61-62: `size - 4` on a usize.  Below 4 the subtraction overflows:
\* a checked build panics there, an unchecked build wraps to
\* usize::MAX - (3 - size) (val holds the distance to 2^64, negated).
usize_sub4(size, build) ==
    IF size >= 4 THEN [panic |-> FALSE, wrapped |-> FALSE, val |-> size - 4]
    ELSE IF build = "checked"
         THEN [panic |-> TRUE, wrapped |-> FALSE, val |-> 0]
         ELSE [panic |-> FALSE, wrapped |-> TRUE, val |-> size - 4]

\* async_reader::next, up to the allocation of the body buffer: the only
\* test on the prefix is size > msize; vec![0u8; n] with a wrapped n is
\* larger than isize::MAX and panics with "capacity overflow".
async_reader_next(size, m, build) ==
    IF size > m
    THEN [result |-> "Err", err |-> "TooLong", wrapped |-> FALSE, body_len |-> 0]
    ELSE LET n == usize_sub4(size, build) IN
         IF n.panic
         THEN [result |-> "panic", err |-> "attempt to subtract with overflow",
               wrapped |-> FALSE, body_len |-> 0]
         ELSE IF n.wrapped
              THEN [result |-> "panic", err |-> "capacity overflow",
                    wrapped |-> TRUE, body_len |-> n.val]
              ELSE [result |-> "read", err |-> "", wrapped |-> FALSE, body_len |-> n.val]

\* A reader with msize m takes a frame with the given size prefix.
FrameRead(size, m, build) ==
    /\ trial = None
    /\ trial' = [fn |-> "next", size |-> size, msize |-> m, build |-> build,
                 ret |-> async_reader_next(size, m, build)]
    /\ UNCHANGED <<server_msize, fs_lock, st, cur, rmsize, wmsize, msize, version, handles,
                   requests, inq, out, transport, calls, dropped, unsent>>

\* The byte lengths of the five strings of a Stat (name, uid, gid, muid,
\* extension): around the largest body and the largest wrapped stat that fit
\* in 16 bits, and a name that does not fit by itself.
NameLens == {0, 4, 65471, 65472, 65473, 65474, 65475, 65535, 65536}
StatLens ==
    { [name |-> n, uid |-> u, gid |-> 0, muid |-> 0, extension |-> e] :
        n \in NameLens, u \in {0, 1}, e \in {0, 1} }

RECURSIVE SumSeq(_)
SumSeq(ns) == IF ns = <<>> THEN 0 ELSE Head(ns) + SumSeq(Tail(ns))

\* <&[u8]>::dehydrate (and through it &str): `let size: u16 =
\* self.len().try_into()?`, then the length and the n bytes.
slice_dehydrate(n) ==
    IF n > \hFFFF
    THEN [ok |-> FALSE, err |-> "TooLong", len |-> 0, bytes |-> 0]
    ELSE [ok |-> TRUE, err |-> "", len |-> n, bytes |-> 2 + n]

\* A faulty variant of Stat_dehydrate: body_len counts its own two bytes.
Stat_dehydrate_incl(lens) ==
    LET strs == << slice_dehydrate(lens.name), slice_dehydrate(lens.uid),
                   slice_dehydrate(lens.gid), slice_dehydrate(lens.muid),
                   slice_dehydrate(lens.extension) >>
        fields == <<2, 4, 13, 4, 4, 4, 8>> \o [i \in 1 .. 5 |-> strs[i].bytes]
                      \o <<4, 4, 4>>
        body == slice_dehydrate(SumSeq(fields))
    IN  IF \E i \in 1 .. 5 : ~strs[i].ok
        THEN [ok |-> FALSE, err |-> "TooLarge", body_len |-> 0, fields |-> <<>>,
              bytes |-> 0]
        ELSE IF ~body.ok
        THEN [ok |-> FALSE, err |-> "TooLarge", body_len |-> 0, fields |-> <<>>,
              bytes |-> 0]
        ELSE [ok |-> TRUE, err |-> "", body_len |-> body.len + 2, fields |-> fields,
              bytes |-> body.bytes]

\* Stat::dehydrate: the fields ty[2] dev[4] qid[13] mode[4] atime[4] mtime[4]
\* length[8], the five strings, nuid[4] ngid[4] nmuid[4] go to a scratch
\* buffer (a string of more than 65535 bytes fails with
\* StringError::TooLarge); the buffer is written as a byte slice, body_len
\* first (a body of more than 65535 bytes fails with StatError::TooLarge).
Stat_dehydrate(lens) ==
    LET strs == << slice_dehydrate(lens.name), slice_dehydrate(lens.uid),
                   slice_dehydrate(lens.gid), slice_dehydrate(lens.muid),
                   slice_dehydrate(lens.extension) >>
        fields == <<2, 4, 13, 4, 4, 4, 8>> \o [i \in 1 .. 5 |-> strs[i].bytes]
                      \o <<4, 4, 4>>
        body == slice_dehydrate(SumSeq(fields))
    IN  IF \E i \in 1 .. 5 : ~strs[i].ok
        THEN [ok |-> FALSE, err |-> "TooLarge", body_len |-> 0, fields |-> <<>>,
              bytes |-> 0]
        ELSE IF ~body.ok
        THEN [ok |-> FALSE, err |-> "TooLarge", body_len |-> 0, fields |-> <<>>,
              bytes |-> 0]
        ELSE [ok |-> TRUE, err |-> "", body_len |-> body.len, fields |-> fields,
              bytes |-> body.bytes]

\* R::dehydrate, Self::Stat(tag, stat): the stat is encoded apart, `let size:
\* u16 = bytes.len().try_into()?` (RError::TooLong), then type[1] tag[2]
\* size[2] and the bytes.
R_Stat_dehydrate(lens) ==
    LET s == Stat_dehydrate(lens) IN
    IF ~s.ok
    THEN [ok |-> FALSE, err |-> s.err, size |-> 0, body_len |-> 0, fields |-> <<>>,
          frame |-> 0]
    ELSE IF s.bytes > \hFFFF
    THEN [ok |-> FALSE, err |-> "TooLong", size |-> 0, body_len |-> 0, fields |-> <<>>,
          frame |-> 0]
    ELSE [ok |-> TRUE, err |-> "", size |-> s.bytes, body_len |-> s.body_len,
          fields |-> s.fields, frame |-> 4 + 1 + 2 + 2 + s.bytes]

\* T::dehydrate, Self::WStat(tag, fid, stat): as for RStat, with fid[4]
\* before the size (TError::TooLong).
T_WStat_dehydrate(lens) ==
    LET s == Stat_dehydrate(lens) IN
    IF ~s.ok
    THEN [ok |-> FALSE, err |-> s.err, size |-> 0, body_len |-> 0, fields |-> <<>>,
          frame |-> 0]
    ELSE IF s.bytes > \hFFFF
    THEN [ok |-> FALSE, err |-> "TooLong", size |-> 0, body_len |-> 0, fields |-> <<>>,
          frame |-> 0]
    ELSE [ok |-> TRUE, err |-> "", size |-> s.bytes, body_len |-> s.body_len,
          fields |-> s.fields, frame |-> 4 + 1 + 2 + 4 + 2 + s.bytes]

\* An RStat or a TWStat carrying a stat with strings of the given lengths is
\* encoded.
StatEncode(op, lens) ==
    /\ trial = None
    /\ trial' = [fn |-> "dehydrate", op |-> op, lens |-> lens,
                 ret |-> IF op = "RStat" THEN R_Stat_dehydrate(lens)
                                         ELSE T_WStat_dehydrate(lens)]
    /\ UNCHANGED <<server_msize, fs_lock, st, cur, rmsize, wmsize, msize, version, handles,
                   requests, inq, out, transport, calls, dropped, unsent>>

NextCodec ==
    \/ \E qt \in FileTypes, p \in PermBits : FileTypeCodec(qt, p)
    \/ \E q \in QidValues, m \in BuilderModes : StatBuild(q, m)
    \/ \E q \in QidValues : QidRoundTrip(q)
    \/ \E q \in QidValues, g \in {1, \hFFFE} : RAttachRoundTrip(R_Attach(g, q))
    \/ \E n \in SizePrefixes, m \in ReaderMsizes, b \in Builds : FrameRead(n, m, b)
    \/ \E op \in {"RStat", "TWStat"}, lens \in StatLens : StatEncode(op, lens)

SpecCodec == Init /\ [][NextCodec]_vars

---------------------------------------------------------------------------
(* Handshake: C1, C2, C3 *)

\* The handshake loop of c reads the TVersion at the head of the stream in
\* this step.
VersionRead(c) ==
    /\ st[c] = "Handshaking"
    /\ CanRead(c)
    /\ Head(inq[c]).op = "Version"
    /\ (inq'[c] = Tail(inq[c]) \/ st'[c] = "Closed")

\* server_version.try_negotiate(client_version) for the TVersion at the head.
Negotiation(c) == try_negotiate(ServerVersion, FromStr(Head(inq[c]).version))

\* min(server_msize, client_msize) for the TVersion at the head.
MinMsize(c) ==
    IF server_msize < Head(inq[c]).msize THEN server_msize ELSE Head(inq[c]).msize

\* C1, as the specification states it: whenever a TVersion is read during
\* Handshaking and negotiation succeeds, the reader's and the writer's msize
\* both become min(server_msize, client_msize), exactly one
\* RVersion(tag, min, negotiated version) is written and the connection
\* becomes Ready, for every tag and every client_msize.
C1_AsStated ==
    [][\A c \in Conns :
        (VersionRead(c) /\ Negotiation(c).ok) =>
            /\ rmsize'[c] = MinMsize(c)
            /\ wmsize'[c] = MinMsize(c)
            /\ out'[c] = Append(out[c], R_Version(Head(inq[c]).tag, MinMsize(c),
                                                  Negotiation(c).version))
            /\ st'[c] = "Ready"]_vars

\* C1, corrected: whenever a TVersion is read during Handshaking and
\* negotiation succeeds, the reader's and the writer's msize both become
\* min(server_msize, client_msize).  If the RVersion frame, 13 bytes plus the
\* version string, fits in that minimum, exactly one RVersion(tag, min,
\* negotiated version) is written and the connection becomes Ready; otherwise
\* nothing is written and the connection is closed.
C1_Handshake ==
    [][\A c \in Conns :
        (VersionRead(c) /\ Negotiation(c).ok) =>
            LET reply == R_Version(Head(inq[c]).tag, MinMsize(c), Negotiation(c).version) IN
            /\ rmsize'[c] = MinMsize(c)
            /\ wmsize'[c] = MinMsize(c)
            /\ IF 13 + Len(Display(Negotiation(c).version)) <= MinMsize(c)
               THEN /\ out'[c] = Append(out[c], reply)
                    /\ st'[c] = "Ready"
               ELSE /\ out'[c] = out[c]
                    /\ unsent'[c] = Some(reply)
                    /\ st'[c] = "Closed"]_vars

\* A connection made Ready by a handshake in which the server's msize was the
\* smaller one, with its RVersion on the wire.
C1_Witness ==
    \E c \in Conns :
        /\ st[c] = "Ready"
        /\ server_msize < 8192
        /\ rmsize[c] = server_msize
        /\ wmsize[c] = server_msize
        /\ \E g \in Tags : out[c] = << R_Version(g, server_msize, ServerVersion) >>

\* The reason of a failed negotiation for the TVersion at the head.
Reason(c) ==
    IF FromStr(Head(inq[c]).version).id # ServerVersion.id
    THEN "MismatchedId"
    ELSE "MismatchedVariant"

\* A closed connection stays closed: nothing more is read from it, nothing is
\* written to it, no fid is bound and no capability is called.
Terminated(c) ==
    st[c] = "Closed" =>
        /\ st'[c] = "Closed"
        /\ cur'[c] = None
        /\ inq'[c] = inq[c]
        /\ handles'[c] = EmptyMap
        /\ requests'[c] = EmptyMap
        /\ Len(out'[c]) <= Len(out[c])
        /\ calls'[c] \in {calls[c], <<>>}

\* C2, as the specification states it: whenever a TVersion is read during
\* Handshaking and negotiation fails, exactly one RError(tag, reason,
\* 0xFFFFFFFF) is written and the connection is terminated: no later T is
\* read or dispatched, no fid is bound, no capability is called.
C2_AsStated ==
    [][\A c \in Conns :
        /\ (VersionRead(c) /\ ~Negotiation(c).ok) =>
              /\ out'[c] = Append(out[c], R_Error(Head(inq[c]).tag, Reason(c), NOERRNO))
              /\ st'[c] = "Closed"
              /\ handles'[c] = EmptyMap
              /\ calls'[c] = <<>>
        /\ Terminated(c)]_vars

\* C2, corrected: whenever a TVersion is read during Handshaking and
\* negotiation fails, the connection is terminated (no later T is read or
\* dispatched, no fid is bound, no capability is called), and exactly one
\* RError(tag, reason, 0xFFFFFFFF) is written if its frame, 13 bytes plus the
\* reason, fits in the server's msize; if it does not fit nothing is written.
C2_Failure ==
    [][\A c \in Conns :
        /\ (VersionRead(c) /\ ~Negotiation(c).ok) =>
              LET reply == R_Error(Head(inq[c]).tag, Reason(c), NOERRNO) IN
              /\ IF 13 + Len(Reason(c)) <= server_msize
                 THEN out'[c] = Append(out[c], reply)
                 ELSE out'[c] = out[c] /\ unsent'[c] = Some(reply)
              /\ st'[c] = "Closed"
              /\ handles'[c] = EmptyMap
              /\ calls'[c] = <<>>
        /\ Terminated(c)]_vars

\* A connection closed by a failed negotiation, with its RError on the wire.
C2_Witness ==
    \E c \in Conns :
        /\ st[c] = "Closed"
        /\ handles[c] = EmptyMap
        /\ calls[c] = <<>>
        /\ \E g \in Tags : out[c] = << R_Error(g, "MismatchedVariant", NOERRNO) >>

\* C3: while a connection is Handshaking every T other than TVersion that is
\* read is dropped: no reply is written, no capability is called, the fid
\* table and the tag table are unchanged and the connection stays
\* Handshaking.  No request is dispatched, no capability is called and no
\* table entry is made before the connection is Ready, and a connection
\* becomes Ready only by reading a TVersion whose negotiation succeeds.
C3_HandshakeDrop ==
    /\ [](\A c \in Conns :
            st[c] \in {"Idle", "Handshaking"} =>
                /\ cur[c] = None
                /\ calls[c] = <<>>
                /\ handles[c] = EmptyMap
                /\ requests[c] = EmptyMap)
    /\ [][\A c \in Conns :
            /\ ( /\ st[c] = "Handshaking"
                 /\ CanRead(c)
                 /\ Head(inq[c]).op # "Version"
                 /\ (inq'[c] = Tail(inq[c]) \/ st'[c] = "Closed") ) =>
                  /\ out'[c] = out[c]
                  /\ calls'[c] = calls[c]
                  /\ handles'[c] = handles[c]
                  /\ requests'[c] = requests[c]
                  /\ cur'[c] = cur[c]
                  /\ st'[c] = "Handshaking"
            /\ (st[c] # "Ready" /\ st'[c] = "Ready") =>
                  (VersionRead(c) /\ Negotiation(c).ok)]_vars

\* A connection that is still Handshaking after its loop dropped a message.
C3_Witness ==
    \E c \in Conns :
        /\ st[c] = "Handshaking"
        /\ dropped[c]
        /\ inq[c] = <<>>
        /\ out[c] = <<>>
        /\ handles[c] = EmptyMap
        /\ requests[c] = EmptyMap

---------------------------------------------------------------------------
(* Version negotiation: C4 *)

\* The outcome the specification gives for self x peer, computed from the two
\* strings: "MismatchedId", "MismatchedVariant" or "Ok".
Outcome(self, peer) ==
    IF self[1] # peer[1] THEN "MismatchedId"
    ELSE IF Tail(self) = Tail(peer) \/ Len(self) = 1 THEN "Ok"
    ELSE "MismatchedVariant"

Negotiated(self, peer, outcome, shown) ==
    (trial.self = self /\ trial.peer = peer /\ trial.result # None) =>
        LET r == Unwrap(trial.result) IN
        IF outcome = "Ok"
        THEN r.ok /\ Display(r.version) = shown
        ELSE ~r.ok /\ r.err = outcome

\* C4: try_negotiate(self, peer) is Err(MismatchedId) when the ids differ,
\* otherwise Ok(self) when the variants are equal or self has no variant,
\* otherwise Err(MismatchedVariant); a successful result is always self.
\* 9P2000 x 9P2000 = 9P2000, 9P2000 x 9P2000.L = 9P2000,
\* 9P2000.L x 9P2000 = MismatchedVariant, 9P2000 x 9P2001.L = MismatchedId.
C4_TryNegotiate ==
    /\ trial.result # None =>
          LET r == Unwrap(trial.result)
              o == Outcome(trial.self, trial.peer)
          IN  IF o = "Ok"
              THEN r.ok /\ r.version = FromStr(trial.self)
                        /\ Display(r.version) = Join(trial.self)
              ELSE ~r.ok /\ r.err = o
    /\ Negotiated(<<"9P2000">>, <<"9P2000">>, "Ok", "9P2000")
    /\ Negotiated(<<"9P2000">>, <<"9P2000", "L">>, "Ok", "9P2000")
    /\ Negotiated(<<"9P2000", "L">>, <<"9P2000">>, "MismatchedVariant", "")
    /\ Negotiated(<<"9P2000">>, <<"9P2001", "L">>, "MismatchedId", "")

\* 9P2000 x 9P2000.L has been negotiated.
C4_Witness ==
    /\ trial.self = <<"9P2000">>
    /\ trial.peer = <<"9P2000", "L">>
    /\ trial.result # None
    /\ Unwrap(trial.result).ok

---------------------------------------------------------------------------
(* The Ready loop: C5, C6, C7, C8 *)

\* A TFlush with a tag of its own, naming the tag of the request being
\* dispatched, has arrived on the connection and waits to be read.
FlushArrived(c) ==
    \E i \in 1..Len(inq[c]) :
        /\ inq[c][i].op = "Flush"
        /\ inq[c][i].oldtag = Unwrap(cur[c]).tag
        /\ inq[c][i].tag # Unwrap(cur[c]).tag

\* C5: if a TFlush(tag_f, oldtag = tag of T1) has been received on a
\* connection before the reply to T1 is sent, then when the dispatch of T1
\* finishes its reply R1 is discarded: nothing is written for T1.
C5_Flush ==
    [][\A c \in Conns :
        ( /\ st[c] = "Ready"
          /\ cur[c] # None
          /\ FlushArrived(c)
          /\ cur'[c] = None ) => out'[c] = out[c]]_vars

\* C6: every TFlush(tag, oldtag) dispatched in the Ready state is answered
\* with RFlush(tag) on the wire, whatever oldtag is.
C6_FlushAnswered ==
    [][\A c \in Conns :
        ( /\ st[c] = "Ready"
          /\ cur[c] # None
          /\ Unwrap(cur[c]).op = "Flush"
          /\ transport[c] = "up"
          /\ cur'[c] = None ) =>
              out'[c] = Append(out[c], R_Flush(Unwrap(cur[c]).tag))]_vars

\* The step writes one reply to the end of the connection's outbound stream.
Written(c) ==
    /\ Len(out'[c]) = Len(out[c]) + 1
    /\ SubSeq(out'[c], 1, Len(out[c])) = out[c]

\* C7: in the Ready state requests are dispatched one at a time.  A T is read
\* only when no request is being dispatched and the tag table is empty (the
\* reply to the previous T was written or discarded); every reply is written
\* behind the replies written before it, carries the tag of the one request
\* being dispatched and ends that dispatch.
C7_OneAtATime ==
    [][\A c \in Conns :
        /\ ( /\ st[c] = "Ready"
             /\ st'[c] = "Ready"
             /\ inq[c] # <<>>
             /\ inq'[c] = Tail(inq[c]) ) =>
                /\ cur[c] = None
                /\ requests[c] = EmptyMap
        /\ (st[c] = "Ready" /\ Len(out'[c]) > Len(out[c])) =>
                /\ cur[c] # None
                /\ Written(c)
                /\ out'[c][Len(out'[c])].tag = Unwrap(cur[c]).tag
                /\ cur'[c] = None
                /\ requests'[c] = EmptyMap]_vars

\* Two requests were pipelined: the reply to the first is on the wire ahead
\* of the RFlush that answers the second.
C7_Witness ==
    \E c \in Conns :
        /\ st[c] = "Ready"
        /\ Len(out[c]) = 2
        /\ out[c][1].op \notin {"RVersion", "RFlush"}
        /\ out[c][2].op = "RFlush"
        /\ out[c][1].tag # out[c][2].tag

\* The dispatch of the request cur[c] finishes in this step, on a transport
\* that works.
DispatchEnds(c) ==
    /\ st[c] = "Ready"
    /\ cur[c] # None
    /\ cur'[c] = None
    /\ transport[c] = "up"

\* The tag of cur[c] is still in the tag table when its handler returns: only
\* the Flush handler removes a tag.
TagStillPresent(c) ==
    LET t == Unwrap(cur[c]) IN
    t.tag \in DOMAIN (IF t.op = "Flush" THEN Del(requests[c], t.oldtag) ELSE requests[c])

\* C8, as the specification states it: when a dispatch finishes, the reply is
\* written if and only if the request's tag is still in the tag table;
\* otherwise it is discarded and the connection stays Ready.  Every R written
\* carries the tag of the T being answered, and a T gets at most one R.
C8_AsStated ==
    [][\A c \in Conns :
        /\ DispatchEnds(c) =>
              IF TagStillPresent(c)
              THEN /\ Written(c)
                   /\ out'[c][Len(out'[c])].tag = Unwrap(cur[c]).tag
              ELSE /\ out'[c] = out[c]
                   /\ st'[c] = "Ready"
        /\ (st[c] = "Ready" /\ Len(out'[c]) > Len(out[c])) =>
              /\ cur[c] # None
              /\ Written(c)
              /\ out'[c][Len(out'[c])].tag = Unwrap(cur[c]).tag
              /\ cur'[c] = None]_vars

\* C8, corrected: when a dispatch finishes and the request's tag is no longer
\* in the tag table the reply is discarded and the connection stays Ready.
\* When the tag is still there, the reply is written and the connection
\* stays Ready if the reply's frame fits in the writer's msize; if it does
\* not fit, nothing is written and the connection is closed.  Every R
\* written carries the tag of the T being answered, and a T gets at most one R.
C8_Reply ==
    [][\A c \in Conns :
        /\ DispatchEnds(c) =>
              IF TagStillPresent(c)
              THEN \/ /\ Written(c)
                      /\ out'[c][Len(out'[c])].tag = Unwrap(cur[c]).tag
                      /\ RSize(out'[c][Len(out'[c])]) <= wmsize[c]
                      /\ st'[c] = "Ready"
                      /\ unsent'[c] = None
                   \/ /\ out'[c] = out[c]
                      /\ st'[c] = "Closed"
                      /\ unsent'[c] # None
                      /\ Unwrap(unsent'[c]).tag = Unwrap(cur[c]).tag
                      /\ RSize(Unwrap(unsent'[c])) > wmsize[c]
              ELSE /\ out'[c] = out[c]
                   /\ st'[c] = "Ready"
                   /\ unsent'[c] = None
        /\ (st[c] = "Ready" /\ Len(out'[c]) > Len(out[c])) =>
              /\ cur[c] # None
              /\ Written(c)
              /\ out'[c][Len(out'[c])].tag = Unwrap(cur[c]).tag
              /\ cur'[c] = None]_vars

\* A request was dispatched on a Ready connection and its reply, an error of
\* the fid table, is on the wire.
C8_Witness ==
    \E c \in Conns :
        /\ st[c] = "Ready"
        /\ cur[c] = None
        /\ requests[c] = EmptyMap
        /\ Len(out[c]) = 1
        /\ out[c][1].op = "RError"
        /\ out[c][1].ename = "FileHandlesError(NoSuchFid)"

---------------------------------------------------------------------------
(* The tag table and the fid table: C9, C10 *)

\* C9: Requests.insert(tag, T) on a tag that is in the tag table fails with
\* TagAlreadyExists and leaves the table, and so the stored request,
\* unchanged.  A T read by the Ready loop whose tag is in the tag table is
\* dropped: it is not dispatched, no reply is written, and the fid table and
\* the tag table are unchanged.
C9_TagCollision ==
    /\ [](trial # None =>
            LET r == Unwrap(trial) IN
            (r.fn = "insert" /\ r.key \in DOMAIN r.before) =>
                /\ ~r.ok
                /\ r.err = "TagAlreadyExists"
                /\ r.after = r.before)
    /\ [][\A c \in Conns :
            ( /\ st[c] = "Ready"
              /\ cur[c] = None
              /\ CanRead(c)
              /\ Head(inq[c]).tag \in DOMAIN requests[c]
              /\ inq'[c] = Tail(inq[c]) ) =>
                  /\ cur'[c] = None
                  /\ out'[c] = out[c]
                  /\ handles'[c] = handles[c]
                  /\ requests'[c] = requests[c]
                  /\ st'[c] = "Ready"]_vars

\* An insert was refused for a tag under which another request is stored.
C9_Witness ==
    /\ trial # None
    /\ Unwrap(trial).fn = "insert"
    /\ ~Unwrap(trial).ok
    /\ Unwrap(trial).before[Unwrap(trial).key] # Unwrap(Unwrap(trial).val)
    /\ Unwrap(trial).after[Unwrap(trial).key] = Unwrap(trial).before[Unwrap(trial).key]

\* C10: insert(fid, session, file) on a live fid fails with FidAlreadyExists
\* and leaves the table, and so the existing handle, unchanged; on a fid that
\* is not live it binds the fid to (session, file) with no open-file state
\* and changes no other fid.  remove(fid) on a live fid returns its handle
\* and makes the fid not live; on a fid that is not live it fails with
\* NoSuchFid and leaves the table unchanged.  get and get_mut on a fid that
\* is not live fail with NoSuchFid.
C10_FidTable ==
    trial # None =>
        LET r == Unwrap(trial)
            live == r.key \in DOMAIN r.before
        IN  /\ (r.fn = "insert" /\ live) =>
                  /\ ~r.ok
                  /\ r.err = "FidAlreadyExists"
                  /\ r.after = r.before
            /\ (r.fn = "insert" /\ ~live) =>
                  /\ r.ok
                  /\ DOMAIN r.after = DOMAIN r.before \cup {r.key}
                  /\ r.after[r.key] = [session |-> Unwrap(r.val)[1],
                                       file |-> Unwrap(r.val)[2], of |-> None]
                  /\ \A f \in DOMAIN r.before : r.after[f] = r.before[f]
            /\ (r.fn = "remove" /\ live) =>
                  /\ r.ok
                  /\ r.ret = Some(r.before[r.key])
                  /\ DOMAIN r.after = DOMAIN r.before \ {r.key}
                  /\ \A f \in DOMAIN r.after : r.after[f] = r.before[f]
            /\ (r.fn = "remove" /\ ~live) =>
                  /\ ~r.ok
                  /\ r.err = "NoSuchFid"
                  /\ r.after = r.before
            /\ (r.fn \in {"get", "get_mut"} /\ ~live) =>
                  /\ ~r.ok
                  /\ r.err = "NoSuchFid"
                  /\ r.after = r.before

\* An insert was refused for a live fid whose handle holds an open file and
\* differs from the handle offered.
C10_Witness ==
    /\ trial # None
    /\ Unwrap(trial).fn = "insert"
    /\ ~Unwrap(trial).ok
    /\ Unwrap(trial).before[Unwrap(trial).key].of # None
    /\ Unwrap(trial).before[Unwrap(trial).key].file # Unwrap(Unwrap(trial).val)[2]
    /\ Unwrap(trial).before[Unwrap(trial).key].session # Unwrap(Unwrap(trial).val)[1]
    /\ Unwrap(trial).after = Unwrap(trial).before

---------------------------------------------------------------------------
(* Request dispatch: C11 .. C19 *)

\* The Ready loop ends, in this step, the iteration that dispatched the
\* request cur[c], a request of kind op.
Handled(c, op) ==
    /\ st[c] = "Ready"
    /\ cur[c] # None
    /\ Unwrap(cur[c]).op = op
    /\ cur'[c] = None

\* The reply of message_handler to cur[c] is r: the loop handed r to rw.send,
\* which wrote it behind the earlier replies or failed and ended the task.
Reply(c, r) ==
    IF st'[c] = "Ready"
    THEN out'[c] = Append(out[c], r)
    ELSE out'[c] = out[c] /\ unsent'[c] = Some(r)

\* The fid table the handler leaves is h (the table goes away with a
\* connection whose send failed).
Table(c, h) == st'[c] = "Ready" => handles'[c] = h

\* C11: TWalk(fid, newfid, wnames) on a live fid chooses its reply from the
\* result (final, intermediates) of the back-end's walk: final = None and
\* len(intermediates) = len(wnames) gives RError(tag, "ENOENT", 2); final =
\* None and different lengths gives RWalk(tag, qids of intermediates); final =
\* Some and different lengths gives RError(tag, "EINVAL", 22); final = Some,
\* equal lengths and a newfid that is not live binds newfid to (session of
\* fid, final, no open file) and gives RWalk(tag, qids of intermediates).  An
\* empty wnames answered with (Some(clone of fid's file), []) and a fresh
\* newfid binds newfid to fid's file and replies RWalk(tag, []).
C11_WalkReply ==
    [][\A c \in Conns :
        (Handled(c, "Walk") /\ Unwrap(cur[c]).fid \in DOMAIN handles[c]) =>
            LET t == Unwrap(cur[c])
                h == handles[c]
                ret == calls'[c][1].ret
            IN  /\ Len(calls'[c]) = 1
                /\ calls'[c][1].fn = "walk"
                /\ calls'[c][1].on = h[t.fid].file
                /\ calls'[c][1].arg = t.wnames
                /\ ret.ok =>
                      LET final == ret.val.file
                          inter == ret.val.files
                          same == Len(inter) = Len(t.wnames)
                      IN  /\ (final = None /\ same) =>
                                Reply(c, R_Error(t.tag, "ENOENT", 2))
                          /\ (final = None /\ ~same) =>
                                Reply(c, R_Walk(t.tag, Qids(inter)))
                          /\ (final # None /\ ~same) =>
                                Reply(c, R_Error(t.tag, "EINVAL", 22))
                          /\ (final # None /\ same /\ t.newfid \notin DOMAIN h) =>
                                /\ Reply(c, R_Walk(t.tag, Qids(inter)))
                                /\ Table(c, Put(h, t.newfid,
                                                [session |-> h[t.fid].session,
                                                 file |-> Unwrap(final), of |-> None]))
                          /\ ( /\ t.wnames = <<>>
                               /\ final = Some(h[t.fid].file)
                               /\ inter = <<>>
                               /\ t.newfid \notin DOMAIN h ) =>
                                /\ Reply(c, R_Walk(t.tag, <<>>))
                                /\ st'[c] = "Ready" =>
                                      handles'[c][t.newfid].file = h[t.fid].file]_vars

\* A walk of one name succeeded: its RWalk with one qid is on the wire and a
\* second fid is bound to the file walked to, in the session of the first.
C11_Witness ==
    \E c \in Conns :
        /\ st[c] = "Ready"
        /\ cur[c] = None
        /\ Len(calls[c]) = 1
        /\ calls[c][1].fn = "walk"
        /\ calls[c][1].ret.ok
        /\ calls[c][1].ret.val.file = Some("zero")
        /\ Len(calls[c][1].arg) = 1
        /\ Len(calls[c][1].ret.val.files) = 1
        /\ Len(out[c]) = 1
        /\ out[c][1].op = "RWalk"
        /\ Len(out[c][1].qids) = 1
        /\ \E f \in DOMAIN handles[c], n \in DOMAIN handles[c] :
              /\ f # n
              /\ handles[c][n] = [session |-> handles[c][f].session,
                                  file |-> "zero", of |-> None]

\* The walk dispatched for cur[c] succeeded in full: the back-end returned a
\* final file and as many intermediates as there are names.
WalkSucceeds(c) ==
    /\ Handled(c, "Walk")
    /\ Unwrap(cur[c]).fid \in DOMAIN handles[c]
    /\ Len(calls'[c]) = 1
    /\ calls'[c][1].ret.ok
    /\ calls'[c][1].ret.val.file # None
    /\ Len(calls'[c][1].ret.val.files) = Len(Unwrap(cur[c]).wnames)

\* C12: a TWalk in which newfid equals fid and the walk fully succeeds is
\* accepted: the reply is RWalk(tag, qids), not an error, and the fid is
\* rebound to the file walked to.
C12_SameFid ==
    [][\A c \in Conns :
        (WalkSucceeds(c) /\ Unwrap(cur[c]).newfid = Unwrap(cur[c]).fid) =>
            LET t == Unwrap(cur[c])
                ret == calls'[c][1].ret
            IN  /\ Reply(c, R_Walk(t.tag, Qids(ret.val.files)))
                /\ st'[c] = "Ready" =>
                      /\ t.fid \in DOMAIN handles'[c]
                      /\ handles'[c][t.fid].file = Unwrap(ret.val.file)
                      /\ handles'[c][t.fid].session = handles[c][t.fid].session]_vars

C14_Attach ==
    [][\A c \in Conns :
        Handled(c, "Attach") =>
            LET t == Unwrap(cur[c])
                h == handles[c]
            IN  IF t.aname \notin Filesystems
                THEN /\ Reply(c, R_Error(t.tag, "NoSuchFilesystem", NOERRNO))
                     /\ calls'[c] = <<>>
                     /\ Table(c, h)
                ELSE /\ Len(calls'[c]) = 1
                     /\ calls'[c][1].fn = "attach"
                     /\ calls'[c][1].arg = <<t.uname, t.aname, t.nuname>>
                     /\ LET ret == calls'[c][1].ret IN
                        IF ~ret.ok
                        THEN /\ Reply(c, R_Error(t.tag, ret.val.desc, ret.val.errno))
                             /\ Table(c, h)
                        ELSE IF t.fid \in DOMAIN h
                        THEN /\ Reply(c, R_Error(t.tag, "FileHandlesError(FidAlreadyExists)",
                                              NOERRNO))
                             /\ Table(c, h)
                        ELSE /\ Reply(c, R_Attach(t.tag, Qid(ret.val)))
                             /\ Table(c, Put(h, t.fid,
                                             [session |-> [uname |-> t.uname,
                                                           aname |-> t.aname],
                                              file |-> ret.val, of |-> None]))]_vars

\* An attach succeeded: its RAttach carries the qid of the root and the only
\* live fid is bound to the root in the session (u, ""), with no open file.
C14_Witness ==
    \E c \in Conns :
        /\ st[c] = "Ready"
        /\ cur[c] = None
        /\ Len(calls[c]) = 1
        /\ calls[c][1].fn = "attach"
        /\ calls[c][1].ret = Ok("root")
        /\ Len(out[c]) = 1
        /\ out[c][1].op = "RAttach"
        /\ out[c][1].qid = Qid("root")
        /\ \E f \in Fids :
              handles[c] = Put(EmptyMap, f, [session |-> [uname |-> "u", aname |-> ""],
                                             file |-> "root", of |-> None])

\* The Ready loop ends, in this step and on a transport that works, the
\* iteration that dispatched a TRead or a TWrite.
ReadWriteHandled(c) ==
    /\ (Handled(c, "Read") \/ Handled(c, "Write"))
    /\ transport[c] = "up"

\* C15, as the specification states it: TRead or TWrite on a live fid that
\* has no open-file state is answered with RError(tag, "EBADFD", 77) without
\* calling read_at/write_at; TRead or TWrite on a non-live fid is answered
\* with RError(tag, debug string of NoSuchFid, 0xFFFFFFFF); in both cases the
\* fid table is unchanged and the connection stays Ready.
C15_AsStated ==
    [][\A c \in Conns :
        ReadWriteHandled(c) =>
            LET t == Unwrap(cur[c])
                h == handles[c]
            IN  /\ (t.fid \in DOMAIN h /\ h[t.fid].of = None) =>
                      /\ Reply(c, R_Error(t.tag, "EBADFD", 77))
                      /\ calls'[c] = <<>>
                      /\ handles'[c] = h
                      /\ st'[c] = "Ready"
                /\ t.fid \notin DOMAIN h =>
                      /\ Reply(c, R_Error(t.tag, "FileHandlesError(NoSuchFid)", NOERRNO))
                      /\ calls'[c] = <<>>
                      /\ handles'[c] = h
                      /\ st'[c] = "Ready"]_vars

\* C15, corrected: TRead or TWrite on a live fid that has no open-file state
\* is answered with RError(tag, "EBADFD", 77) without calling
\* read_at/write_at, the fid table is unchanged and the connection stays
\* Ready.  TRead or TWrite on a non-live fid makes no capability call and its
\* reply is RError(tag, debug string of NoSuchFid, 0xFFFFFFFF): if that
\* frame, 13 bytes plus the 27 of the string, fits in the negotiated msize it
\* is written, the fid table is unchanged and the connection stays Ready;
\* if it does not fit nothing is written and the connection is closed.
C15_ReadWrite ==
    [][\A c \in Conns :
        ReadWriteHandled(c) =>
            LET t == Unwrap(cur[c])
                h == handles[c]
                nosuch == R_Error(t.tag, "FileHandlesError(NoSuchFid)", NOERRNO)
            IN  /\ (t.fid \in DOMAIN h /\ h[t.fid].of = None) =>
                      /\ out'[c] = Append(out[c], R_Error(t.tag, "EBADFD", 77))
                      /\ calls'[c] = <<>>
                      /\ handles'[c] = h
                      /\ st'[c] = "Ready"
                /\ t.fid \notin DOMAIN h =>
                      /\ calls'[c] = <<>>
                      /\ IF 13 + 27 <= msize[c]
                         THEN /\ out'[c] = Append(out[c], nosuch)
                              /\ handles'[c] = h
                              /\ st'[c] = "Ready"
                         ELSE /\ out'[c] = out[c]
                              /\ unsent'[c] = Some(nosuch)
                              /\ st'[c] = "Closed"]_vars

\* A read or a write on a fid that is bound but not open was answered with
\* EBADFD: the reply is on the wire, no capability was called, the fid is
\* still bound without an open file and the connection is Ready.
C15_Witness ==
    \E c \in Conns :
        /\ st[c] = "Ready"
        /\ cur[c] = None
        /\ calls[c] = <<>>
        /\ Len(out[c]) = 1
        /\ out[c][1] = R_Error(out[c][1].tag, "EBADFD", 77)
        /\ handles[c] # EmptyMap
        /\ \A f \in DOMAIN handles[c] : handles[c][f].of = None

\* The requests that name a fid that has to be live.
FidOps == {"Stat", "Open", "Read", "Write", "Walk", "Clunk", "Remove", "WStat", "Create"}

\* The reply to a request with tag g on a fid that is not live.
NoSuchFid(g) == R_Error(g, "FileHandlesError(NoSuchFid)", NOERRNO)

C17_Remove ==
    [][\A c \in Conns :
        (Handled(c, "Remove") /\ Unwrap(cur[c]).fid \in DOMAIN handles[c]) =>
            LET t == Unwrap(cur[c])
                h == handles[c]
            IN  /\ Len(calls'[c]) = 1
                /\ calls'[c][1].fn = "unlink"
                /\ calls'[c][1].on = h[t.fid].file
                /\ LET ret == calls'[c][1].ret IN
                   IF ret.ok
                   THEN Reply(c, R_Remove(t.tag))
                   ELSE Reply(c, R_Error(t.tag, ret.val.desc, ret.val.errno))
                /\ t.fid \notin DOMAIN handles'[c]
                /\ Table(c, Del(h, t.fid))]_vars

\* A TRemove whose unlink failed: the back-end's error is on the wire, the fid
\* is released all the same and the other fids are still bound.
C17_Witness ==
    \E c \in Conns :
        /\ st[c] = "Ready"
        /\ cur[c] = None
        /\ Len(calls[c]) = 1
        /\ calls[c][1].fn = "unlink"
        /\ ~calls[c][1].ret.ok
        /\ Len(out[c]) = 1
        /\ out[c][1] = R_Error(out[c][1].tag, "EIO", 5)
        /\ Cardinality(DOMAIN handles[c]) = Cardinality(Fids) - 1

\* The error message_handler returns for cur[c] in this step, as the pair
\* (string of the reply, errno of the reply), or None when it returns Ok: the
\* FileError of the capability call that failed, or the server error of the
\* fid table or the filesystem map.
Failure(c) ==
    LET t == Unwrap(cur[c])
        h == handles[c]
        cs == calls'[c]
    IN  IF cs # <<>> /\ ~cs[Len(cs)].ret.ok
        THEN Some(<<cs[Len(cs)].ret.val.desc, cs[Len(cs)].ret.val.errno>>)
        ELSE IF t.op \in FidOps /\ t.fid \notin DOMAIN h
        THEN Some(<<"FileHandlesError(NoSuchFid)", NOERRNO>>)
        ELSE IF t.op = "Attach" /\ t.aname \notin Filesystems
        THEN Some(<<"NoSuchFilesystem", NOERRNO>>)
        ELSE IF \/ t.op = "Attach" /\ t.fid \in DOMAIN h
                \/ t.op = "Walk" /\ WalkSucceeds(c) /\ t.newfid \in DOMAIN h
        THEN Some(<<"FileHandlesError(FidAlreadyExists)", NOERRNO>>)
        ELSE None

\* The dispatch of cur[c] ends in this step with an error, on a transport
\* that works.
DispatchFails(c) ==
    /\ DispatchEnds(c)
    /\ Failure(c) # None

\* C18, as the specification states it: when the dispatch of a request with
\* tag t fails, the reply is RError(t, desc, errno) for a back-end
\* FileError(errno, desc) and RError(t, debug string, 0xFFFFFFFF) for every
\* other server error (NoSuchFilesystem, FidAlreadyExists, NoSuchFid); a
\* dispatch error never terminates the connection, which stays Ready.
C18_AsStated ==
    [][\A c \in Conns :
        DispatchFails(c) =>
            /\ Reply(c, R_Error(Unwrap(cur[c]).tag, Unwrap(Failure(c))[1],
                                Unwrap(Failure(c))[2]))
            /\ st'[c] = "Ready"]_vars

\* C18, corrected: when the dispatch of a request with tag t fails, the reply
\* is RError(t, desc, errno) for a back-end FileError(errno, desc) and
\* RError(t, debug string, 0xFFFFFFFF) for every other server error.  If the
\* frame of that RError, 13 bytes plus its string, fits in the negotiated
\* msize it is written and the connection stays Ready; if it does not fit,
\* nothing is written and the connection is closed.
C18_DispatchError ==
    [][\A c \in Conns :
        DispatchFails(c) =>
            LET reply == R_Error(Unwrap(cur[c]).tag, Unwrap(Failure(c))[1],
                                 Unwrap(Failure(c))[2])
            IN  IF 13 + Len(reply.ename) <= msize[c]
                THEN /\ out'[c] = Append(out[c], reply)
                     /\ st'[c] = "Ready"
                ELSE /\ out'[c] = out[c]
                     /\ unsent'[c] = Some(reply)
                     /\ st'[c] = "Closed"]_vars

\* A TStat whose stat failed in the back-end: the FileError is on the wire
\* with its errno, and the connection is Ready with its fid still bound.
C18_Witness ==
    \E c \in Conns :
        /\ st[c] = "Ready"
        /\ cur[c] = None
        /\ Len(calls[c]) = 1
        /\ calls[c][1].fn = "stat"
        /\ calls[c][1].ret = Fail([errno |-> 5, desc |-> "EIO"])
        /\ Len(out[c]) = 1
        /\ out[c][1] = R_Error(out[c][1].tag, "EIO", 5)
        /\ handles[c] # EmptyMap

---------------------------------------------------------------------------
(* Framing: C20 *)

\* The server's reader takes up the frame at the head of the inbound stream
\* in this step (tr.next() is called between two iterations of a loop, on a
\* transport that works).
Reading(c) ==
    /\ st[c] \in {"Handshaking", "Ready"}
    /\ cur[c] = None
    /\ transport[c] = "up"
    /\ inq[c] # <<>>
    /\ inq'[c] # inq[c]

\* The connection task ends on the read: nothing was dispatched for the
\* frame, no reply was attempted.
ReadTooLong(c) ==
    /\ st'[c] = "Closed"
    /\ cur'[c] = None
    /\ out'[c] = out[c]
    /\ unsent'[c] = None
    /\ calls'[c] = calls[c]

\* C20: the writer fails with TooLong and writes nothing exactly when the
\* encoded frame, size prefix included, exceeds its msize; the reader fails
\* with TooLong, without taking up the body, when the size of the frame
\* exceeds its msize, and takes up every frame that is not larger and
\* decodes; a frame of exactly msize bytes is accepted by both.  Every frame the server writes is at most the writer's msize, and
\* every frame it writes in the Ready state is at most the negotiated msize.
C20_FrameSize ==
    [][\A c \in Conns :
        /\ Len(out'[c]) > Len(out[c]) =>
              /\ Written(c)
              /\ RSize(out'[c][Len(out'[c])]) <= wmsize'[c]
              /\ st[c] = "Ready" => RSize(out'[c][Len(out'[c])]) <= msize[c]
        /\ (unsent'[c] # unsent[c] /\ unsent'[c] # None /\ transport[c] = "up") =>
              /\ RSize(Unwrap(unsent'[c])) > wmsize'[c]
              /\ out'[c] = out[c]
              /\ st'[c] = "Closed"
        /\ (DispatchEnds(c) /\ TagStillPresent(c)) =>
              \/ Len(out'[c]) = Len(out[c]) + 1
              \/ unsent'[c] # None
        /\ (Reading(c) /\ TSize(Head(inq[c])) > rmsize[c]) => ReadTooLong(c)
        /\ (Reading(c) /\ TSize(Head(inq[c])) <= rmsize[c] /\ Hydrates(Head(inq[c]))) =>
              ~ReadTooLong(c)
        /\ ( /\ Reading(c)
             /\ st[c] = "Ready"
             /\ TSize(Head(inq[c])) <= rmsize[c]
             /\ Hydrates(Head(inq[c])) ) =>
              /\ st'[c] = "Ready"
              /\ cur'[c] = Some(T_hydrate(Head(inq[c])))]_vars

\* On a connection that negotiated msize 24 the TAttach that bound a fid, a
\* frame of exactly 24 bytes, was read, and the RCreate that answers a
\* TCreate on that fid, a frame of exactly 24 bytes, was written.
C20_Witness ==
    \E c \in Conns :
        /\ st[c] = "Ready"
        /\ cur[c] = None
        /\ wmsize[c] = 24
        /\ rmsize[c] = 24
        /\ Len(out[c]) = 1
        /\ out[c][1].op = "RCreate"
        /\ RSize(out[c][1]) = wmsize[c]

---------------------------------------------------------------------------
(* Decoding errors: C21 *)

\* C21: a T-message read in the Ready state whose decoding fails with
\* StringError::UnicodeError (a string field that is not UTF-8) is answered
\* with an RError(tag, debug string, 0xFFFFFFFF), and the connection stays
\* open for further requests.
C21_UnicodeError ==
    [][\A c \in Conns :
        ( /\ Reading(c)
          /\ st[c] = "Ready"
          /\ TSize(Head(inq[c])) <= rmsize[c]
          /\ ~Hydrates(Head(inq[c])) ) =>
              /\ st'[c] = "Ready"
              /\ Len(out'[c]) = Len(out[c]) + 1
              /\ out'[c][Len(out'[c])].op = "RError"
              /\ out'[c][Len(out'[c])].tag = Head(inq[c]).tag
              /\ out'[c][Len(out'[c])].errno = NOERRNO]_vars

---------------------------------------------------------------------------
(* The lock of the filesystem registry: C22 *)

\* C22: the mutex that guards the filesystem registry is held only across
\* the map lookup of an Attach and never across a capability call: while a
\* connection is suspended inside Filesystem::attach nobody holds the lock,
\* so an Attach that another connection is dispatching at that moment can
\* take the lock and proceed.
C22_LockScope ==
    \A c \in AllConns :
        AttachPending(c) =>
            /\ fs_lock = None
            /\ \A d \in AllConns \ {c} :
                  (Dispatching(d, "Attach") /\ calls[d] = <<>>) => ENABLED AttachLookup(d)

---------------------------------------------------------------------------
(* Create: C23 *)

\* C23: a TCreate on a live fid calls create on the fid's file with the
\* name, perm & 0o777, the FileType decoded from perm, the mode and the
\* extension, and then opens the new child with the mode.  When both
\* succeed the reply is RCreate(tag, qid of the child, 0) and the fid's
\* open-file state is the child's open file; when create fails (open is then
\* not called) or the open fails the reply is the RError of that failure and
\* the fid's handle is what it was.
C23_Create ==
    [][\A c \in Conns :
        (Handled(c, "Create") /\ Unwrap(cur[c]).fid \in DOMAIN handles[c]) =>
            LET t == Unwrap(cur[c])
                handle == handles[c][t.fid]
                cs == calls'[c]
            IN  /\ Len(cs) >= 1
                /\ cs[1].fn = "create"
                /\ cs[1].on = handle.file
                /\ cs[1].arg = << t.name, t.perm.lo % 512, FileType_from_u32(t.perm),
                                  t.mode, t.extension >>
                /\ IF ~cs[1].ret.ok
                   THEN /\ Len(cs) = 1
                        /\ Reply(c, R_Error(t.tag, cs[1].ret.val.desc, cs[1].ret.val.errno))
                        /\ Table(c, handles[c])
                   ELSE /\ Len(cs) = 2
                        /\ cs[2].fn = "open"
                        /\ cs[2].on = cs[1].ret.val
                        /\ cs[2].arg = t.mode
                        /\ IF ~cs[2].ret.ok
                           THEN /\ Reply(c, R_Error(t.tag, cs[2].ret.val.desc, cs[2].ret.val.errno))
                                /\ Table(c, handles[c])
                           ELSE /\ Reply(c, R_Create(t.tag, Qid(cs[1].ret.val), 0))
                                /\ st'[c] = "Ready" =>
                                      /\ DOMAIN handles'[c] = DOMAIN handles[c]
                                      /\ handles'[c][t.fid].of = Some(cs[2].ret.val)
                                      /\ \A f \in DOMAIN handles[c] \ {t.fid} :
                                            handles'[c][f] = handles[c][f]]_vars

\* A TCreate with perm DMDIR|0o1755 has been answered with an RCreate: create
\* was called with perm 0o755 and type Dir, the child was opened, and the fid
\* now holds the child's open file.
C23_Witness ==
    \E c \in Conns :
        /\ st[c] = "Ready"
        /\ cur[c] = None
        /\ Len(calls[c]) = 2
        /\ calls[c][1].fn = "create"
        /\ calls[c][1].arg[2] = 493
        /\ calls[c][1].arg[3] = FT("Dir")
        /\ calls[c][2].ret.ok
        /\ out[c] # <<>>
        /\ out[c][Len(out[c])].op = "RCreate"
        /\ \E f \in DOMAIN handles[c] : handles[c][f].of = Some(calls[c][2].ret.val)

---------------------------------------------------------------------------
(* FileType: C24 *)

\* C24: for each of File, Dir, Append, Excl, Auth, Tmp, Link, Device,
\* NamedPipe and Socket, decoding the variant's u32 mode encoding gives the
\* variant back, whichever of the low 9 permission bits are set in the word;
\* the u8 (qid byte) encoding of a non-special variant is the top byte of its
\* u32 encoding, and that of Device, NamedPipe and Socket is 0.
C24_FileTypeBijection ==
    (trial # None /\ trial.fn = "FileType" /\ trial.ty \in NamedTypes) =>
        /\ trial.word.hi = trial.u32.hi
        /\ trial.word.lo % 512 = trial.perm
        /\ trial.word.lo - trial.perm = trial.u32.lo
        /\ trial.decoded = trial.ty
        /\ trial.ty \in PlainTypes => trial.u8 = trial.u32.hi
        /\ trial.ty \in SpecialTypes => trial.u8 = 0 /\ trial.u32.hi = 0 /\ trial.u32.lo # 0

\* Device with all nine permission bits set has been decoded as Device, and
\* its qid byte is 0.
C24_Witness ==
    /\ trial # None
    /\ trial.fn = "FileType"
    /\ trial.ty = FT("Device")
    /\ trial.perm = 511
    /\ trial.word = U32(0, 8388608 + 511)
    /\ trial.decoded = FT("Device")
    /\ trial.u8 = 0

---------------------------------------------------------------------------
(* The Stat builder: C25 *)

\* Bit i of a natural.
Bit(n, i) == (n \div (2 ^ i)) % 2

\* C25: for every qid and every mode given to with_mode, the top byte of the
\* built Stat's mode is the top byte of the u32 encoding of the qid's type,
\* and each of the low 24 bits of the mode is set exactly when it is set in
\* the given mode or in the encoding of the qid's type; the Stat carries the
\* qid it was built for.
C25_StatBuilder ==
    (trial # None /\ trial.fn = "build") =>
        LET enc == FileType_into_u32(trial.qid.ty) IN
        /\ trial.stat.qid = trial.qid
        /\ trial.stat.mode.hi = enc.hi
        /\ trial.stat.mode.hi = FileType_into_u8(trial.qid.ty)
        /\ \A i \in 0 .. 23 :
              Bit(trial.stat.mode.lo, i) =
                  IF Bit(enc.lo, i) = 1 THEN 1 ELSE Bit(trial.mode.lo, i)

\* A Stat has been built for a Dir qid with the mode 0xABCDEF12: its mode is
\* 0x80CDEF12.
C25_Witness ==
    /\ trial # None
    /\ trial.fn = "build"
    /\ trial.qid.ty = FT("Dir")
    /\ trial.mode = U32(171, 13496082)
    /\ trial.stat.mode = U32(128, 13496082)

---------------------------------------------------------------------------
(* Round trips: C26 *)

NamedBytes == { 0, 2, 4, 8, 32, 64, 128 }

\* The types a Qid keeps over the wire: the non-special named ones, and
\* Unknown(b) for a byte b no named type has.
WireTypes == PlainTypes \cup { Unknown(b) : b \in (0 .. 255) \ NamedBytes }

---------------------------------------------------------------------------
(* Connections: C27 *)

\* What a connection's task owns: its position, its reader's and writer's
\* limits, its negotiated msize and version, its fid table and its tag table.
Owned(c) ==
    << st[c], cur[c], rmsize[c], wmsize[c], msize[c], version[c], handles[c], requests[c] >>

\* The same after the step.
OwnedAfter(c) ==
    << st'[c], cur'[c], rmsize'[c], wmsize'[c], msize'[c], version'[c], handles'[c],
       requests'[c] >>

\* C27: a connection owns its fid table, its tag table, its msize and its
\* version exclusively: a step that changes anything one connection owns, or
\* reads or writes on its streams, leaves everything the other connections
\* own, and their streams, as they were.  (That the same fid and the same
\* tag are live on two connections at once is the witness.)
C27_Isolation ==
    [][\A c \in AllConns : \A d \in AllConns \ {c} :
          (OwnedAfter(c) # Owned(c) \/ inq'[c] # inq[c] \/ out'[c] # out[c]) =>
              /\ OwnedAfter(d) = Owned(d)
              /\ inq'[d] = inq[d]
              /\ out'[d] = out[d]
              /\ unsent'[d] = unsent[d]]_vars

\* Fid 0 is live on both connections and tag 1 is in the tag table of both:
\* each has attached fid 0 and is now dispatching a request with tag 1.
C27_Witness ==
    /\ \A c \in AllConns :
          /\ st[c] = "Ready"
          /\ 0 \in DOMAIN handles[c]
          /\ 1 \in DOMAIN requests[c]
          /\ cur[c] # None
    /\ Cardinality(AllConns) = 2

---------------------------------------------------------------------------
(* Transport errors: C28 *)

ReadsFail(c) == transport[c] \in {"eof", "down"}
WritesFail(c) == transport[c] \in {"shut", "down"}

\* The task of c comes to a send: the handshake loop answers a TVersion, or
\* the Ready loop ends the dispatch of a request.
ComesToSend(c) ==
    \/ st[c] = "Handshaking" /\ inq'[c] # inq[c] /\ Head(inq[c]).op = "Version"
    \/ st[c] = "Ready" /\ cur[c] # None /\ cur'[c] = None

\* The task of c comes to a read: it is between two requests and it moves.
ComesToRead(c) ==
    /\ st[c] \in {"Handshaking", "Ready"}
    /\ cur[c] = None
    /\ OwnedAfter(c) # Owned(c)

\* C28: a read error or end of stream, or a write error, of the transport of
\* a connection, in Handshaking or in Ready, closes that connection: the task
\* ends at the failed read or send without writing anything (no RError
\* either); while reads fail no T is read, while writes fail no R is written,
\* and a closed connection stays closed, reads no T and writes no R; the
\* step leaves the other connections as they were, a closed connection does
\* not hold the lock of the registry, and a connection can be accepted
\* whenever one is idle.  A connection whose reads fail is eventually
\* closed, and a request read on any connection is eventually finished.
C28_TransportError ==
    /\ [][\A c \in AllConns :
            /\ (ReadsFail(c) /\ ComesToRead(c)) =>
                  /\ st'[c] = "Closed"
                  /\ out'[c] = out[c]
                  /\ unsent'[c] = unsent[c]
            /\ (WritesFail(c) /\ ComesToSend(c)) =>
                  /\ st'[c] = "Closed"
                  /\ out'[c] = out[c]
                  /\ unsent'[c] # None
            /\ ReadsFail(c) => (inq'[c] = inq[c] /\ (cur[c] = None => cur'[c] = None))
            /\ WritesFail(c) => out'[c] = out[c]
            /\ st[c] = "Closed" =>
                  /\ st'[c] = "Closed"
                  /\ cur'[c] = None
                  /\ inq'[c] = <<>>
                  /\ out'[c] = out[c] \/ (out[c] # <<>> /\ out'[c] = Tail(out[c]))
            /\ (st[c] # "Closed" /\ st'[c] = "Closed") =>
                  /\ fs_lock' # Some(c)
                  /\ \A d \in AllConns \ {c} :
                        /\ OwnedAfter(d) = Owned(d)
                        /\ inq'[d] = inq[d] /\ out'[d] = out[d]
                        /\ st[d] = "Idle" => ENABLED Accept(d)]_vars
    /\ \A c \in AllConns : (ReadsFail(c) ~> st[c] = "Closed")
    /\ \A c \in AllConns : (cur[c] # None ~> cur[c] = None)

\* Connection 1 has been closed by a transport error and nothing is left to
\* take from it, while connection 2 is Ready, has attached fid 0 and has its
\* RAttach written.
C28_Witness ==
    /\ st[1] = "Closed"
    /\ transport[1] # "up"
    /\ out[1] = <<>>
    /\ st[2] = "Ready"
    /\ transport[2] = "up"
    /\ 0 \in DOMAIN handles[2]
    /\ out[2] # <<>>
    /\ out[2][1].op = "RAttach"

---------------------------------------------------------------------------
(* Reads the back-end satisfies: C29 *)

\* C29: on a working transport, a TRead on an open fid whose count is at
\* most the negotiated msize, and for which read_at reports that it filled
\* the whole buffer, is
\* answered with an RRead carrying count bytes whose frame fits in msize:
\* the RRead is written and the connection stays Ready.
C29_ReadSatisfied ==
    [][\A c \in Conns :
        ( /\ Handled(c, "Read")
          /\ transport[c] = "up"
          /\ Unwrap(cur[c]).fid \in DOMAIN handles[c]
          /\ handles[c][Unwrap(cur[c]).fid].of # None
          /\ Unwrap(cur[c]).size <= msize[c]
          /\ calls'[c] # <<>>
          /\ calls'[c][1].ret.ok
          /\ calls'[c][1].ret.val = Unwrap(cur[c]).size ) =>
              LET t == Unwrap(cur[c])
                  reply == R_Read(t.tag, [i \in 1 .. t.size |-> 0])
              IN  /\ RSize(reply) <= msize[c]
                  /\ out'[c] = Append(out[c], reply)
                  /\ st'[c] = "Ready"]_vars

---------------------------------------------------------------------------
(* The fid after a Create: C30 *)

\* C30: after a TCreate on a fid that succeeded (create and open returned Ok
\* and the RCreate was written), the file of the fid's handle is the created
\* child, the one whose qid the RCreate carries and whose open file the
\* handle holds: a following TStat or TWalk on the fid uses the child.
C30_CreateRebinds ==
    [][\A c \in Conns :
        ( /\ Handled(c, "Create")
          /\ Unwrap(cur[c]).fid \in DOMAIN handles[c]
          /\ Len(calls'[c]) = 2
          /\ calls'[c][2].ret.ok
          /\ st'[c] = "Ready" ) =>
              LET t == Unwrap(cur[c])
                  child == calls'[c][1].ret.val
              IN  /\ out'[c] = Append(out[c], R_Create(t.tag, Qid(child), 0))
                  /\ handles'[c][t.fid].of = Some(calls'[c][2].ret.val)
                  /\ handles'[c][t.fid].file = child]_vars

---------------------------------------------------------------------------
(* The tag table: C31 *)

\* C31: the tag table of a connection is empty whenever the Ready loop is
\* about to read, and at every moment it holds at most one entry, the tag
\* of the request being dispatched, mapped to that request; so no request
\* read in Ready is ever dropped for a tag collision: whatever tag the
\* client uses, the frame read becomes the request being dispatched.
C31_TagTable ==
    /\ [](\A c \in Conns :
            /\ cur[c] = None => requests[c] = EmptyMap
            /\ cur[c] # None =>
                  /\ st[c] = "Ready"
                  /\ DOMAIN requests[c] = {Unwrap(cur[c]).tag}
                  /\ requests[c][Unwrap(cur[c]).tag] = Unwrap(cur[c]))
    /\ [][\A c \in Conns :
            (Reading(c) /\ st[c] = "Ready" /\ st'[c] = "Ready") =>
                /\ cur'[c] = Some(T_hydrate(Head(inq[c])))
                /\ DOMAIN requests'[c] = {Head(inq[c]).tag}]_vars

\* A request with tag 1 is being dispatched, its tag the only entry of the
\* table, on a connection where fids 0 and 1 were attached by two earlier
\* requests: each of them used tag 1 or 2, so a tag has been used again.
C31_Witness ==
    \E c \in Conns :
        /\ st[c] = "Ready"
        /\ cur[c] # None
        /\ Unwrap(cur[c]).tag = 1
        /\ Unwrap(cur[c]).op = "Clunk"
        /\ DOMAIN requests[c] = {1}
        /\ DOMAIN handles[c] = {0, 1}

---------------------------------------------------------------------------
(* Every request is answered: C32 *)

\* C32: in Ready, on a transport that works, when the dispatch of a request
\* ends (every capability call it made has returned) and the loop goes back
\* to read the next T, exactly one R has been written for the request, and
\* it carries the request's tag.
C32_Answered ==
    [][\A c \in Conns :
        ( /\ st[c] = "Ready"
          /\ transport[c] = "up"
          /\ cur[c] # None
          /\ cur'[c] = None
          /\ st'[c] = "Ready" ) =>
              /\ Len(out'[c]) = Len(out[c]) + 1
              /\ SubSeq(out'[c], 1, Len(out[c])) = out[c]
              /\ out'[c][Len(out'[c])].tag = Unwrap(cur[c]).tag]_vars

---------------------------------------------------------------------------
(* Where open-file state comes from: C33 *)

\* The request being dispatched on c is a TOpen or TCreate on fid f whose
\* open call (the last capability call of the handler) succeeded.
OpenedBy(c, f) ==
    /\ cur[c] # None
    /\ Unwrap(cur[c]).op \in {"Open", "Create"}
    /\ Unwrap(cur[c]).fid = f
    /\ Len(calls'[c]) > Len(calls[c])
    /\ calls'[c][Len(calls'[c])].fn = "open"
    /\ calls'[c][Len(calls'[c])].ret.ok

\* C33: a fid gets open-file state only from a successful TOpen or TCreate on
\* that same fid: a fid newly bound (by Attach or Walk) has none, even when
\* the source fid is open; the open-file state of a bound fid changes only in
\* a step that ends a TOpen or TCreate on it whose open succeeded; and a
\* TOpen answered with an error leaves the fid table, open-file states
\* included, as it was.
C33_OpenState ==
    [][\A c \in Conns :
        /\ \A f \in DOMAIN handles'[c] :
              /\ f \notin DOMAIN handles[c] => handles'[c][f].of = None
              /\ (f \in DOMAIN handles[c] /\ handles'[c][f].of # handles[c][f].of) =>
                     /\ handles'[c][f].of # None
                     /\ OpenedBy(c, f)
        /\ (Handled(c, "Open") /\ ~OpenedBy(c, Unwrap(cur[c]).fid)) =>
              Table(c, handles[c])]_vars

\* Fid 1 has just been bound by a walk from fid 0 while fid 0 is open: fid 1
\* has no open-file state.
C33_Witness ==
    \E c \in Conns :
        /\ st[c] = "Ready" /\ cur[c] = None
        /\ DOMAIN handles[c] = {0, 1}
        /\ handles[c][0].of # None
        /\ handles[c][1].of = None
        /\ calls[c] # <<>>
        /\ calls[c][Len(calls[c])].fn = "walk"
        /\ calls[c][Len(calls[c])].ret.ok

---------------------------------------------------------------------------
(* The negotiated version: C34 *)

---------------------------------------------------------------------------
(* Size prefixes below 4: C35 *)

\* C35: the frame reader takes every size prefix without arithmetic
\* underflow: a prefix below 4 is rejected with an error (Err, which closes
\* the connection) and no wrapped size - 4 is computed; a prefix from 4 up
\* to msize gives a body of size - 4 bytes, a larger one TooLong.
C35_SizePrefix ==
    (trial # None /\ trial.fn = "next") =>
        /\ trial.size < 4 =>
              /\ trial.ret.result = "Err"
              /\ ~trial.ret.wrapped
        /\ (trial.size >= 4 /\ trial.size <= trial.msize) =>
              /\ trial.ret.result = "read"
              /\ trial.ret.body_len = trial.size - 4
        /\ trial.size > trial.msize =>
              /\ trial.ret.result = "Err"
              /\ trial.ret.err = "TooLong"

---------------------------------------------------------------------------
(* The session of a fid: C36 *)

\* C36: every live fid carries the session of the Attach it descends from.
\* A fid becomes bound only by a TAttach on it, with the uname and aname of
\* that request as its session, or by a TWalk to it as newfid, with the
\* session of the source fid; the session of a bound fid never changes,
\* whatever the request.
C36_Session ==
    [][\A c \in Conns : \A f \in DOMAIN handles'[c] :
        IF f \in DOMAIN handles[c]
        THEN handles'[c][f].session = handles[c][f].session
        ELSE /\ cur[c] # None
             /\ LET t == Unwrap(cur[c]) IN
                \/ /\ t.op = "Attach"
                   /\ t.fid = f
                   /\ handles'[c][f].session = [uname |-> t.uname, aname |-> t.aname]
                \/ /\ t.op = "Walk"
                   /\ t.newfid = f
                   /\ t.fid \in DOMAIN handles[c]
                   /\ handles'[c][f].session = handles[c][t.fid].session]_vars

\* Fid 0 was attached by "v" and fid 1 has just been bound by a walk from
\* fid 0: it carries the session of "v".
C36_Witness ==
    \E c \in Conns :
        /\ st[c] = "Ready" /\ cur[c] = None
        /\ DOMAIN handles[c] = {0, 1}
        /\ handles[c][0].session = [uname |-> "v", aname |-> ""]
        /\ handles[c][1].session = [uname |-> "v", aname |-> ""]
        /\ calls[c] # <<>>
        /\ calls[c][Len(calls[c])].fn = "walk"
        /\ calls[c][Len(calls[c])].ret.ok

---------------------------------------------------------------------------
(* What changes the set of live fids: C37 *)

\* The reply written in this step, if one was written.
Answer(c) == out'[c][Len(out'[c])]

\* C37: on a connection that stays Ready, a fid becomes live only in a step
\* that ends a TAttach on it, a TWalk to it as newfid or a TCreate, answered
\* without an error; a fid stops being live only in a step that ends a
\* TClunk or TRemove on it; the steps ending a TOpen, TRead, TWrite, TStat,
\* TWStat, TFlush, TVersion, TAuth or unknown message, and every step ending
\* a request other than TRemove with an RError, leave the set of live fids
\* as it was.
C37_LiveFids ==
    [][\A c \in Conns :
        (st[c] = "Ready" /\ st'[c] = "Ready") =>
            /\ \A f \in DOMAIN handles'[c] \ DOMAIN handles[c] :
                  /\ cur[c] # None /\ cur'[c] = None
                  /\ Len(out'[c]) = Len(out[c]) + 1
                  /\ Answer(c).op # "RError"
                  /\ LET t == Unwrap(cur[c]) IN
                        \/ t.op = "Attach" /\ t.fid = f
                        \/ t.op = "Walk" /\ t.newfid = f
                        \/ t.op = "Create"
            /\ \A f \in DOMAIN handles[c] \ DOMAIN handles'[c] :
                  /\ cur[c] # None /\ cur'[c] = None
                  /\ Unwrap(cur[c]).op \in {"Clunk", "Remove"}
                  /\ Unwrap(cur[c]).fid = f
            /\ ( /\ cur[c] # None /\ cur'[c] = None
                 /\ \/ Unwrap(cur[c]).op \in {"Open", "Read", "Write", "Stat", "WStat",
                                               "Flush", "Version", "Auth", "Unknown"}
                    \/ /\ Unwrap(cur[c]).op # "Remove"
                       /\ Len(out'[c]) = Len(out[c]) + 1
                       /\ Answer(c).op = "RError" ) =>
                  DOMAIN handles'[c] = DOMAIN handles[c]]_vars

\* A TRemove whose unlink failed has been answered with an RError and the
\* fid it named is gone, while the other fid is still live.
C37_Witness ==
    \E c \in Conns :
        /\ st[c] = "Ready" /\ cur[c] = None
        /\ DOMAIN handles[c] = {1}
        /\ out[c] # <<>>
        /\ out[c][Len(out[c])].op = "RError"
        /\ calls[c] # <<>>
        /\ calls[c][Len(calls[c])].fn = "unlink"
        /\ ~calls[c][Len(calls[c])].ret.ok

---------------------------------------------------------------------------
(* Open: C38 *)

\* The result of the capability call made in this step.
Returned(c) == calls'[c][Len(calls'[c])]

\* C38: the step that ends a TOpen(fid, mode) on a live fid has called open
\* with that mode on the file of fid.  When open returned an open file, that
\* open file is stored on fid, whatever was stored there before, the reply
\* is ROpen(tag, qid of fid's file, iounit of the open file) and no other
\* fid is touched.  The open file of a bound fid changes only in a step that
\* ends a TOpen or TCreate on it, and every read_at and write_at of a TRead
\* or TWrite on fid goes to the open file stored on fid.
C38_Open ==
    [][\A c \in Conns :
        /\ (Handled(c, "Open") /\ Unwrap(cur[c]).fid \in DOMAIN handles[c]) =>
              LET t == Unwrap(cur[c])
                  handle == handles[c][t.fid]
              IN  /\ Len(calls'[c]) = 1
                  /\ Returned(c).fn = "open"
                  /\ Returned(c).on = handle.file
                  /\ Returned(c).arg = t.mode
                  /\ Returned(c).ret.ok =>
                        /\ Reply(c, R_Open(t.tag, Qid(handle.file),
                                           Returned(c).ret.val.iounit))
                        /\ Table(c, [handles[c] EXCEPT
                                       ![t.fid].of = Some(Returned(c).ret.val)])
        /\ \A f \in DOMAIN handles[c] \cap DOMAIN handles'[c] :
              handles'[c][f].of # handles[c][f].of =>
                 /\ Handled(c, "Open") \/ Handled(c, "Create")
                 /\ Unwrap(cur[c]).fid = f
        /\ ( /\ Handled(c, "Read") \/ Handled(c, "Write")
             /\ calls'[c] # <<>> ) =>
              LET t == Unwrap(cur[c]) IN
              /\ t.fid \in DOMAIN handles[c]
              /\ handles[c][t.fid].of # None
              /\ Returned(c).fn \in {"read_at", "write_at"}
              /\ Returned(c).on = Unwrap(handles[c][t.fid].of).file]_vars

\* Fid 1, walked to "zero" and opened once with iounit 0, has been opened
\* again: it now holds the second open file and the reply carries the qid of
\* "zero" and the iounit 8168, while fid 0 is as it was.
C38_Witness ==
    \E c \in Conns :
        /\ st[c] = "Ready" /\ cur[c] = None
        /\ DOMAIN handles[c] = {0, 1}
        /\ handles[c][0].of = Some([file |-> "open zero", iounit |-> 0])
        /\ handles[c][1].file = "zero"
        /\ handles[c][1].of = Some([file |-> "open one", iounit |-> 8168])
        /\ out[c] # <<>>
        /\ out[c][Len(out[c])] = R_Open(1, Qid("zero"), 8168)

---------------------------------------------------------------------------
(* Read and write on an open fid: C39 *)

\* C39: the step that ends a TRead(fid, offset, count) on an open fid has
\* called read_at once, on a buffer of exactly min(count, negotiated msize)
\* bytes at that offset; when read_at returned n, at most the length of the
\* buffer, the reply is RRead(tag, data) with exactly n bytes of data.  The
\* step that ends a TWrite(fid, offset, data) on an open fid has called
\* write_at once with the data at that offset; when write_at returned n the
\* reply is RWrite(tag, n).
C39_ReadWrite ==
    [][\A c \in Conns :
        /\ ( /\ Handled(c, "Read")
             /\ Unwrap(cur[c]).fid \in DOMAIN handles[c]
             /\ handles[c][Unwrap(cur[c]).fid].of # None ) =>
              LET t == Unwrap(cur[c])
                  len == IF t.size <= msize[c] THEN t.size ELSE msize[c]
              IN  /\ Len(calls'[c]) = 1
                  /\ Returned(c).fn = "read_at"
                  /\ Returned(c).arg = <<len, t.offset>>
                  /\ (Returned(c).ret.ok /\ Returned(c).ret.val <= len) =>
                        \E data \in [1 .. Returned(c).ret.val -> {0}] :
                            /\ Len(data) = Returned(c).ret.val
                            /\ Reply(c, R_Read(t.tag, data))
        /\ ( /\ Handled(c, "Write")
             /\ Unwrap(cur[c]).fid \in DOMAIN handles[c]
             /\ handles[c][Unwrap(cur[c]).fid].of # None ) =>
              LET t == Unwrap(cur[c])
              IN  /\ Len(calls'[c]) = 1
                  /\ Returned(c).fn = "write_at"
                  /\ Returned(c).arg = <<t.data, t.offset>>
                  /\ Returned(c).ret.ok =>
                        Reply(c, R_Write(t.tag, Returned(c).ret.val))]_vars

\* A TRead asking for 30 bytes on a connection whose msize is 24 was handed
\* a buffer of 24 bytes; read_at returned 1 and the RRead carries one byte.
C39_Witness ==
    \E c \in Conns :
        /\ st[c] = "Ready" /\ cur[c] = None
        /\ msize[c] = 24
        /\ Len(calls[c]) = 1
        /\ calls[c][1].fn = "read_at"
        /\ calls[c][1].arg = <<24, 0>>
        /\ calls[c][1].ret = Ok(1)
        /\ out[c] # <<>>
        /\ out[c][Len(out[c])] = R_Read(1, <<0>>)

---------------------------------------------------------------------------
(* The two length prefixes of a Stat in a message: C40 *)

\* The bytes the fields ty .. nmuid of a stat take on the wire.
BodyBytes(lens) ==
    2 + 4 + 13 + 4 + 4 + 4 + 8
      + (2 + lens.name) + (2 + lens.uid) + (2 + lens.gid) + (2 + lens.muid)
      + (2 + lens.extension)
      + 4 + 4 + 4

\* C40: in every encoded RStat and TWStat the outer size is body_len + 2 and
\* body_len is the number of bytes of the serialized fields ty .. nmuid;
\* when the body, or the stat with its body_len, does not fit in 16 bits
\* the encoding fails with TooLarge or TooLong and no length is written.
C40_StatLengths ==
    (trial # None /\ trial.fn = "dehydrate") =>
        IF BodyBytes(trial.lens) + 2 <= 65535
        THEN /\ trial.ret.ok
             /\ trial.ret.body_len = BodyBytes(trial.lens)
             /\ trial.ret.body_len = SumSeq(trial.ret.fields)
             /\ trial.ret.size = trial.ret.body_len + 2
             /\ trial.ret.frame =
                   (IF trial.op = "RStat" THEN 9 ELSE 13) + trial.ret.size
        ELSE /\ ~trial.ret.ok
             /\ trial.ret.err \in {"TooLarge", "TooLong"}

\* The largest stat that can be sent: a body of 65533 bytes in an RStat
\* whose outer size is 65535.
C40_Witness ==
    /\ trial # None
    /\ trial.fn = "dehydrate"
    /\ trial.op = "RStat"
    /\ trial.ret.ok
    /\ trial.ret.body_len = 65533
    /\ trial.ret.size = 65535

====
